---------------------------- MODULE Spec2Model ----------------------------
(***************************************************************************)
(* Shortify: the URL service (services/url-service/main.py), the gateway   *)
(* redirect (services/api-gateway/main.py) and the analytics service       *)
(* (services/analytics-service/main.py) as a state machine.                *)
(*                                                                         *)
(* State: the urls and analytics tables (PostgreSQL), the Redis keys       *)
(* url:<code> and clicks:..., the wall clock, the reachability of Redis    *)
(* and of PostgreSQL, and two tables of request slots, each slot holding   *)
(* one in-flight HTTP request with its handler's local variables and its   *)
(* position (pc).  A handler is cut into one                               *)
(* action per await that touches shared state (a database round trip, a    *)
(* Redis round trip, a call to another service); everything between two    *)
(* awaits runs without interleaving on the event loop and belongs to the   *)
(* action of the await before it.                                          *)
(***************************************************************************)
EXTENDS Integers, Sequences, FiniteSets, TLC

VARIABLES
    urls,        \* table urls: the sequence of rows in insertion order
    cache,       \* Redis: short code c (key "url:<c>") -> [val, exp]
    now,         \* datetime.utcnow(), in seconds
    redis_up,    \* whether a Redis round trip succeeds
    reqs,        \* request slot -> the request in flight in it
    ryw,         \* history: codes created and not touched by a request since
    ryw_cached,  \* history: code of ryw -> when its create wrote the cache
    deleted,     \* history: codes for which a delete has answered 200
    analytics,   \* table analytics: the sequence of click rows
    click_seq,   \* the last value of the sequence behind analytics.id
    counters,    \* Redis: key "clicks:..." -> the integer INCR left there
    db_up,       \* whether a PostgreSQL round trip succeeds
    tracks       \* request slot -> the analytics-service request in it

vars == <<urls, cache, now, redis_up, reqs, ryw, ryw_cached, deleted,
          analytics, click_seq, counters, db_up, tracks>>

(***************************************************************************)
(* Bounds of the model.                                                    *)
(***************************************************************************)
NGen == 2            \* codes the random generator can return
MaxTicks == 2        \* clock ticks
TickSeconds == 1800  \* seconds per clock tick
MaxClicks == 2       \* click rows the sequence of analytics.id hands out

(***************************************************************************)
(* Program constants.                                                      *)
(***************************************************************************)
length == 6          \* generate_short_code(length=6)
max_attempts == 10   \* shorten_url: max_attempts = 10
ttl == 3600          \* set_url_in_cache(..., ttl=3600)
timeout == 2         \* client.post(..., timeout=2.0), in seconds

\* Request slots: the requests that can be in flight at once.
Procs == {1, 2}

(***************************************************************************)
(* Optional values: None is the empty tuple, a present value x is <<x>>.   *)
(***************************************************************************)
None == <<>>
Some(x) == <<x>>

(***************************************************************************)
(* Characters and strings.  A string is a sequence of characters; a       *)
(* character is a one-letter string, except "U+00BD" (the vulgar fraction  *)
(* one half), which stands for the non-ASCII characters str.isalnum()      *)
(* accepts.                                                                *)
(***************************************************************************)
AsciiLetters ==
    {"a", "b", "c", "d", "e", "g", "h", "i", "j", "l", "n", "o", "p", "s", "t",
     "x"}
AsciiDigits == {"0", "1", "2", "3", "4", "5", "6", "7", "8", "9"}
UnicodeNumeric == {"U+00BD"}

\* str.isalnum() on one character: isalpha, isdecimal, isdigit or isnumeric.
IsAlnumChar(c) == c \in AsciiLetters \cup AsciiDigits \cup UnicodeNumeric

\* str.isalnum(): every character is alphanumeric and there is at least one.
isalnum(s) == Len(s) > 0 /\ \A i \in 1..Len(s) : IsAlnumChar(s[i])

\* str.replace(ch, ""): the string without the occurrences of ch.
replace(s, ch) == SelectSeq(s, LAMBDA c : c # ch)

\* A string of n times the character ch.
Repeat(ch, n) == [i \in 1..n |-> ch]


(***************************************************************************)
(* Inputs of the requests.                                                 *)
(***************************************************************************)
Hyphens == <<"-", "-", "-">>                  \* "---"
Docs == <<"d", "o", "c", "s">>                \* "docs"
Mixed == <<"a", "-", "_">>                    \* "a-_"
Half == <<"a", "U+00BD", "b">>                \* "a", one half, "b"

\* The codes generate_short_code() returns in the model: NGen of the 62^6.
\* (length characters of string.ascii_letters + string.digits each.)
Gen(i) == [k \in 1..length |-> IF k < length THEN "g" ELSE ToString(i)]
GenCodes == {Gen(i) : i \in 0..(NGen - 1)}

\* Target URLs, as str(url_data.original_url) gives them.
Targets == {"https://example.com/a", "https://example.com/b"}

\* A row written before the service started: created by no handler of the
\* service (none sets expires_at), read by all of them.
old == [id |-> 1, original_url |-> "https://example.com/old",
        short_code |-> <<"o", "l", "d">>, custom_alias |-> TRUE,
        user_id |-> None, expires_at |-> Some(TickSeconds), is_active |-> TRUE]

\* A row that was created and then deactivated before the service started.
gone == [id |-> 2, original_url |-> "https://example.com/gone",
         short_code |-> <<"g", "o", "n", "e">>, custom_alias |-> TRUE,
         user_id |-> None, expires_at |-> None, is_active |-> FALSE]

(***************************************************************************)
(* The urls table.                                                         *)
(***************************************************************************)
\* A unique index over the active rows only.
UniqueViolation_active(tbl, c) ==
    \E i \in 1..Len(tbl) : tbl[i].short_code = c /\ tbl[i].is_active

\* The table without the unique constraint.
UniqueViolation_none(tbl, c) == FALSE

\* Column short_code is unique=True: an INSERT of a code some row holds,
\* active or not, raises IntegrityError at commit.
UniqueViolation(tbl, c) == \E i \in 1..Len(tbl) : tbl[i].short_code = c

\* URL(original_url, short_code, user_id, custom_alias) as the INSERT stores
\* it: id from the sequence, expires_at NULL, is_active default True.
URL(tbl, target, c, user, custom) ==
    [id |-> Len(tbl) + 1, original_url |-> target, short_code |-> c,
     custom_alias |-> custom, user_id |-> user, expires_at |-> None,
     is_active |-> TRUE]

\* The row with primary key id.
SelectById(tbl, id) ==
    LET rows == SelectSeq(tbl, LAMBDA r : r.id = id)
    IN  IF Len(rows) = 0 THEN None ELSE Some(rows[1])

\* select(URL).where(URL.short_code == c), then scalar_one_or_none().
SelectByCode(tbl, c) ==
    LET rows == SelectSeq(tbl, LAMBDA r : r.short_code = c)
    IN  IF Len(rows) = 0 THEN None ELSE Some(rows[1])

(***************************************************************************)
(* Redis, keys url:<code>.                                                 *)
(***************************************************************************)
\* SETEX key ttl value: the entry with its time-to-live counted from now.
setex(kv, c, t, v) ==
    [k \in DOMAIN kv \cup {c} |->
        IF k = c THEN [val |-> v, exp |-> now + t] ELSE kv[k]]

\* A lookup under a key no entry is written under.
get_url_from_cache_wrongkey(c) == None

\* get_url_from_cache: the value, or None on a miss or a Redis failure.
get_url_from_cache(c) ==
    IF redis_up /\ c \in DOMAIN cache THEN Some(cache[c].val) ELSE None

\* A set_url_in_cache that removes an entry it finds in place.
set_url_in_cache_toggle(c, v) ==
    IF c \in DOMAIN cache THEN [k \in DOMAIN cache \ {c} |-> cache[k]]
    ELSE setex(cache, c, ttl, v)

\* A set_url_in_cache that writes nothing.
set_url_in_cache_skip(c, v) == cache

\* set_url_in_cache: SETEX with ttl 3600; a Redis failure is swallowed.
set_url_in_cache(c, v) ==
    IF redis_up THEN setex(cache, c, ttl, v) ELSE cache

\* delete_url_from_cache: DEL; a Redis failure is swallowed.
delete_url_from_cache(c) ==
    IF redis_up THEN [k \in DOMAIN cache \ {c} |-> cache[k]] ELSE cache

(***************************************************************************)
(* Requests.                                                               *)
(***************************************************************************)
Idle ==
    [op |-> "idle", pc |-> "idle", alias |-> None, custom |-> FALSE,
     short_code |-> <<>>,
     original_url |-> "", user_id |-> None, attempts |-> 0, commits |-> 0,
     new_url |-> None, cached_url |-> None, url_data |-> None,
     status |-> 0, body |-> None, gw_status |-> 0, location |-> None,
     track |-> "", collisions |-> 0, fresh |-> FALSE, cached_at |-> None,
     after_delete |-> FALSE, checked_at |-> None, emitted |-> 0,
     sent_at |-> None, raised |-> FALSE, via |-> "", credentials |-> None,
     user_data |-> None, free |-> FALSE]

\* History: code c is no longer a code no request has touched since its
\* create.
Touch(c) ==
    /\ ryw' = ryw \ {c}
    /\ ryw_cached' = [k \in DOMAIN ryw_cached \ {c} |-> ryw_cached[k]]

\* The other requests in flight that name code c.
OthersOn(p, c) ==
    {q \in Procs \ {p} : reqs[q].op # "idle" /\ reqs[q].pc # "done"
                          /\ reqs[q].short_code = c
                          /\ (reqs[q].op = "create" => reqs[q].custom)}

\* The url service answers: the request is over, or, for a request the
\* gateway sent, the gateway goes on with the answer.
Answer(r, code, content) ==
    [r EXCEPT !.status = code, !.body = content,
              !.pc = IF r.op = "redirect" \/ r.via = "gateway"
                     THEN "gw_route" ELSE "done"]

\* An exception of the database driver that no handler catches: the
\* framework answers 500 Internal Server Error.
Unhandled(r) == Answer([r EXCEPT !.raised = TRUE], 500, None)

\* A Redis call raises when Redis cannot be reached.
RedisRaises(up) == ~up

\* Cache helpers without their try/except.
RedisCaught_none(up) == FALSE

\* "except Exception as e" around the Redis call of get_url_from_cache,
\* set_url_in_cache and delete_url_from_cache: the exception is printed,
\* and the handler goes on.
RedisCaught(up) == ~up

\* Whether the Redis call of a cache helper raises into the handler.
CacheFails == RedisRaises(redis_up) /\ ~RedisCaught(redis_up)

(***************************************************************************)
(* POST /shorten                                                           *)
(***************************************************************************)
\* "if url_data.custom_alias:": None and the empty string are falsy.
AliasGiven(alias) == alias # None /\ Len(alias[1]) > 0

\* not short_code.replace("_", "").replace("-", "").isalnum() -> 400
CharsetOk(s) == isalnum(replace(replace(s, "_"), "-"))

\* len(short_code) < 3 or len(short_code) > 20 -> 400
LengthOk(s) == ~(Len(s) < 3 \/ Len(s) > 20)

\* A loop that runs once more.
MoreAttempts_extra(attempt) == attempt <= max_attempts

\* "for _ in range(max_attempts)": whether another iteration follows the
\* one numbered attempt.
MoreAttempts(attempt) == attempt < max_attempts

\* Entry of shorten_url up to the first await db.commit(), for the request
\* r (sent by a client, or by the gateway's shorten_url): the alias is
\* validated, or the first random code is generated (g is what
\* generate_short_code() returns).  History: free, whether no row held the
\* alias when the request arrived.
ShortenArrive(p, r, alias, g) ==
    IF AliasGiven(alias)
    THEN /\ reqs' = [reqs EXCEPT ![p] =
              IF ~CharsetOk(alias[1]) \/ ~LengthOk(alias[1])
              THEN Answer([r EXCEPT !.short_code = alias[1]], 400, None)
              ELSE [r EXCEPT !.short_code = alias[1], !.custom = TRUE,
                             !.free = ~UniqueViolation(urls, alias[1]),
                             !.pc = "commit"]]
         /\ Touch(alias[1])
    ELSE /\ reqs' = [reqs EXCEPT ![p] =
              [r EXCEPT !.short_code = g, !.attempts = 1, !.pc = "commit"]]
         /\ UNCHANGED <<ryw, ryw_cached>>

\* A client sends POST /shorten to the url service.
CreateBegin(p, alias, target, user, g) ==
    /\ reqs[p].op = "idle"
    /\ ShortenArrive(p, [Idle EXCEPT !.op = "create", !.alias = alias,
                                     !.original_url = target,
                                     !.user_id = user], alias, g)
    /\ UNCHANGED <<analytics, click_seq, counters, db_up, tracks>>
    /\ UNCHANGED <<urls, cache, now, redis_up, deleted>>

\* A rollback that leaves the row of the failed INSERT in the table.
rollback_keep(tbl, new_url) == Append(tbl, new_url)

\* await db.rollback() after the IntegrityError: the INSERT has stored
\* nothing, and the session drops the pending row new_url.
rollback(tbl, new_url) == tbl

\* A handler that retries a taken custom alias with a random code.
OnIntegrityError_retry(r, g) ==
    IF MoreAttempts(r.attempts)
    THEN [r EXCEPT !.short_code = g, !.attempts = r.attempts + 1]
    ELSE Answer(r, 500, None)

\* except IntegrityError, after the rollback: 409 for a custom alias; for
\* a generated code the next iteration with the random code g, or 500 when
\* the loop has run max_attempts times.
OnIntegrityError(r, g) ==
    IF r.custom THEN Answer(r, 409, None)
    ELSE IF MoreAttempts(r.attempts)
    THEN [r EXCEPT !.short_code = g, !.attempts = r.attempts + 1]
    ELSE Answer(r, 500, None)

\* await db.commit() of the INSERT, with what follows it up to the next
\* await.  (commits and collisions count the commits and the
\* IntegrityErrors of the request.)
CreateCommit(p, g) ==
    LET r == reqs[p]
        r1 == [r EXCEPT !.commits = r.commits + 1]
    IN
    /\ r.op = "create" /\ r.pc = "commit"
    /\ IF ~db_up
       THEN /\ reqs' = [reqs EXCEPT ![p] = Unhandled(r1)]
            /\ UNCHANGED <<urls, ryw, ryw_cached>>
       ELSE IF UniqueViolation(urls, r.short_code)
       THEN /\ reqs' = [reqs EXCEPT ![p] = OnIntegrityError(
                   [r1 EXCEPT !.collisions = r.collisions + 1], g)]
            /\ urls' = rollback(urls, URL(urls, r.original_url,
                                          r.short_code, r.user_id, r.custom))
            /\ UNCHANGED <<ryw, ryw_cached>>
       ELSE LET new_url == URL(urls, r.original_url, r.short_code,
                               r.user_id, r.custom)
            IN  /\ urls' = Append(urls, new_url)
                /\ reqs' = [reqs EXCEPT ![p] =
                       [r1 EXCEPT !.new_url = Some(new_url),
                                  !.pc = "refresh"]]
                /\ ryw' = IF OthersOn(p, r.short_code) = {}
                          THEN ryw \cup {r.short_code}
                          ELSE ryw \ {r.short_code}
                /\ ryw_cached' = [k \in DOMAIN ryw_cached \ {r.short_code}
                                   |-> ryw_cached[k]]
    /\ UNCHANGED <<analytics, click_seq, counters, db_up, tracks>>
    /\ UNCHANGED <<cache, now, redis_up, deleted>>

\* await db.refresh(new_url): the row is read again by its primary key.
\* (The QR code that follows is rendered from the short URL alone.)
CreateRefresh(p) ==
    LET r == reqs[p]
    IN
    /\ r.op = "create" /\ r.pc = "refresh"
    /\ reqs' = [reqs EXCEPT ![p] =
           IF ~db_up THEN Unhandled(r)
           ELSE [r EXCEPT !.new_url = SelectById(urls, r.new_url[1].id),
                          !.pc = "cache"]]
    /\ UNCHANGED <<analytics, click_seq, counters, db_up, tracks>>
    /\ UNCHANGED <<urls, cache, now, redis_up, ryw, ryw_cached, deleted>>

\* await set_url_in_cache(short_code, new_url.original_url), then the 201.
CreateCacheSet(p) ==
    LET r == reqs[p]
        row == r.new_url[1]
    IN
    /\ r.op = "create" /\ r.pc = "cache"
    /\ cache' = set_url_in_cache(r.short_code, row.original_url)
    /\ reqs' = [reqs EXCEPT ![p] =
           IF CacheFails THEN Unhandled(r)
           ELSE Answer(r, 201,
               Some([id |-> row.id, original_url |-> row.original_url,
                     short_code |-> row.short_code,
                     is_active |-> row.is_active]))]
    /\ ryw_cached' = IF redis_up /\ r.short_code \in ryw
                     THEN [k \in DOMAIN ryw_cached \cup {r.short_code} |->
                              IF k = r.short_code THEN now ELSE ryw_cached[k]]
                     ELSE ryw_cached
    /\ UNCHANGED <<analytics, click_seq, counters, db_up, tracks>>
    /\ UNCHANGED <<urls, now, redis_up, ryw, deleted>>

(***************************************************************************)
(* GET /{short_code} of the url service                                    *)
(***************************************************************************)
\* The checks of the row without the check of the active flag.
MissStatus_noflag(url_data, t) ==
    IF url_data = None THEN 404
    ELSE IF url_data[1].expires_at # None /\ url_data[1].expires_at[1] < t
    THEN 410
    ELSE 200

\* The checks of the row with the comparison of the expiry turned round.
MissStatus_future(url_data, t) ==
    IF url_data = None THEN 404
    ELSE IF ~url_data[1].is_active THEN 410
    ELSE IF url_data[1].expires_at # None /\ url_data[1].expires_at[1] > t
    THEN 410
    ELSE 200

\* What get_original_url answers from the row it read, on a cache miss:
\* 404 without a row, 410 for an inactive row, 410 for an expiry that is
\* set and in the past, and 200 otherwise.
MissStatus(url_data, t) ==
    IF url_data = None THEN 404
    ELSE IF ~url_data[1].is_active THEN 410
    ELSE IF url_data[1].expires_at # None /\ url_data[1].expires_at[1] < t
    THEN 410
    ELSE 200

\* "if cached_url:": None and the empty string are falsy.
CacheHit(cached_url) == cached_url # None /\ cached_url[1] # ""

\* The request arrives at the url service (directly, or sent by the
\* gateway's redirect).  History: whether it is the first request on the
\* code since its create answered, and whether a delete of the code has
\* answered before.
Arrive(p, r, c) ==
    LET creating == \E q \in Procs \ {p} :
                        /\ reqs[q].op = "create" /\ reqs[q].pc # "done"
                        /\ reqs[q].short_code = c
    IN
    /\ reqs' = [reqs EXCEPT ![p] =
           [r EXCEPT !.short_code = c, !.pc = "cache_get",
                     !.fresh = (c \in ryw /\ ~creating),
                     !.cached_at = IF c \in ryw /\ ~creating
                                      /\ c \in DOMAIN ryw_cached
                                   THEN Some(ryw_cached[c]) ELSE None,
                     !.after_delete = (c \in deleted)]]
    /\ Touch(c)

ResolveBegin(p, c) ==
    /\ reqs[p].op = "idle"
    /\ Arrive(p, [Idle EXCEPT !.op = "resolve"], c)
    /\ UNCHANGED <<analytics, click_seq, counters, db_up, tracks>>
    /\ UNCHANGED <<urls, cache, now, redis_up, deleted>>

\* await get_url_from_cache(short_code); a hit is answered at once.
ResolveCacheGet(p) ==
    LET r == reqs[p]
        cached_url == get_url_from_cache(r.short_code)
        r1 == [r EXCEPT !.cached_url = cached_url]
    IN
    /\ r.op \in {"resolve", "redirect"} /\ r.pc = "cache_get"
    /\ reqs' = [reqs EXCEPT ![p] =
           IF CacheFails THEN Unhandled(r)
           ELSE IF CacheHit(cached_url)
           THEN Answer(r1, 200, Some([original_url |-> cached_url[1],
                                      source |-> "cache"]))
           ELSE [r1 EXCEPT !.pc = "select"]]
    /\ UNCHANGED <<analytics, click_seq, counters, db_up, tracks>>
    /\ UNCHANGED <<urls, cache, now, redis_up, ryw, ryw_cached, deleted>>

\* await db.execute(select ...), and the checks of the row that follow.
\* With PostgreSQL unreachable the driver raises, and no handler catches
\* the exception; or the driver waits for a connection longer than the
\* gateway waits for the url service, and the gateway's client.get raises
\* httpx.ReadTimeout, an httpx.RequestError: 503.
ResolveSelect(p) ==
    LET r == reqs[p]
        url_data == SelectByCode(urls, r.short_code)
        r1 == [r EXCEPT !.url_data = url_data, !.checked_at = Some(now)]
        code == MissStatus(url_data, now)
    IN
    /\ r.op \in {"resolve", "redirect"} /\ r.pc = "select"
    /\ \E hangs \in BOOLEAN :
           reqs' = [reqs EXCEPT ![p] =
               IF ~db_up /\ hangs /\ r.op = "redirect"
               THEN [r EXCEPT !.raised = TRUE, !.gw_status = 503,
                              !.pc = "done"]
               ELSE IF ~db_up THEN Unhandled(r)
               ELSE IF code = 200 THEN [r1 EXCEPT !.pc = "cache_set"]
               ELSE Answer(r1, code, None)]
    /\ UNCHANGED <<analytics, click_seq, counters, db_up, tracks>>
    /\ UNCHANGED <<urls, cache, now, redis_up, ryw, ryw_cached, deleted>>

\* await set_url_in_cache(short_code, url_data.original_url), then the 200.
ResolveCacheSet(p) ==
    LET r == reqs[p]
    IN
    /\ r.op \in {"resolve", "redirect"} /\ r.pc = "cache_set"
    /\ cache' = set_url_in_cache(r.short_code, r.url_data[1].original_url)
    /\ reqs' = [reqs EXCEPT ![p] =
           IF CacheFails THEN Unhandled(r)
           ELSE Answer(r, 200,
                    Some([original_url |-> r.url_data[1].original_url,
                          source |-> "database"]))]
    /\ UNCHANGED <<analytics, click_seq, counters, db_up, tracks>>
    /\ UNCHANGED <<urls, now, redis_up, ryw, ryw_cached, deleted>>

(***************************************************************************)
(* DELETE /{short_code} of the url service                                 *)
(***************************************************************************)
\* "if user_id:": None and 0 are falsy.
UserGiven(user) == user # None /\ user[1] # 0

\* The row the query of delete_url yields: by code, and by owner too when
\* a user_id is given.
SelectForDelete(tbl, c, user) ==
    LET rows == SelectSeq(tbl, LAMBDA r :
                    /\ r.short_code = c
                    /\ (UserGiven(user) => r.user_id = user))
    IN  IF Len(rows) = 0 THEN None ELSE Some(rows[1])

\* A delete that removes the row.
Deactivate_remove(tbl, id) == SelectSeq(tbl, LAMBDA r : r.id # id)

\* A commit that flips the flag of the row.
Deactivate_toggle(tbl, id) ==
    [i \in 1..Len(tbl) |->
        IF tbl[i].id = id THEN [tbl[i] EXCEPT !.is_active = ~@] ELSE tbl[i]]

\* A commit that loses the deactivation.
Deactivate_lost(tbl, id) == tbl

\* url_data.is_active = False; commit: UPDATE urls SET is_active=false
\* WHERE id = <the row's id>.
Deactivate(tbl, id) ==
    [i \in 1..Len(tbl) |->
        IF tbl[i].id = id THEN [tbl[i] EXCEPT !.is_active = FALSE] ELSE tbl[i]]

\* Entry of delete_url with its await db.execute(query), for the request
\* r0 (sent by a client, or by the gateway's delete_url): 404 without a
\* row.
DeleteArrive(p, r0, c, user) ==
    LET url_data == SelectForDelete(urls, c, user)
        r == [r0 EXCEPT !.op = "delete", !.short_code = c,
                        !.user_id = user, !.url_data = url_data]
    IN
    /\ reqs' = [reqs EXCEPT ![p] =
           IF ~db_up THEN Unhandled([r EXCEPT !.url_data = None])
           ELSE IF url_data = None THEN Answer(r, 404, None)
           ELSE [r EXCEPT !.pc = "commit"]]
    /\ Touch(c)

\* A client sends DELETE /{c}?user_id=.. to the url service.
DeleteBegin(p, c, user) ==
    /\ reqs[p].op = "idle"
    /\ DeleteArrive(p, Idle, c, user)
    /\ UNCHANGED <<analytics, click_seq, counters, db_up, tracks>>
    /\ UNCHANGED <<urls, cache, now, redis_up, deleted>>

\* await db.commit() of the deactivation.
DeleteCommit(p) ==
    LET r == reqs[p]
    IN
    /\ r.op = "delete" /\ r.pc = "commit"
    /\ urls' = IF db_up THEN Deactivate(urls, r.url_data[1].id) ELSE urls
    /\ reqs' = [reqs EXCEPT ![p] =
           IF db_up THEN [r EXCEPT !.pc = "cache_del"] ELSE Unhandled(r)]
    /\ UNCHANGED <<analytics, click_seq, counters, db_up, tracks>>
    /\ UNCHANGED <<cache, now, redis_up, ryw, ryw_cached, deleted>>

\* await delete_url_from_cache(short_code), then the 200.
DeleteCacheDel(p) ==
    LET r == reqs[p]
    IN
    /\ r.op = "delete" /\ r.pc = "cache_del"
    /\ cache' = delete_url_from_cache(r.short_code)
    /\ reqs' = [reqs EXCEPT ![p] =
           IF CacheFails THEN Unhandled(r) ELSE Answer(r, 200, None)]
    /\ deleted' = IF CacheFails THEN deleted ELSE deleted \cup {r.short_code}
    /\ UNCHANGED <<analytics, click_seq, counters, db_up, tracks>>
    /\ UNCHANGED <<urls, now, redis_up, ryw, ryw_cached>>

(***************************************************************************)
(* The analytics service (services/analytics-service/main.py).             *)
(* Its requests run in the slots of tracks: a POST /track or a DELETE      *)
(* /analytics/{short_code} a client sends, or the POST /track the          *)
(* gateway's redirect of the same slot sends once the slot is free.        *)
(***************************************************************************)
NoTrack ==
    [op |-> "idle", pc |-> "idle", via |-> "", short_code |-> <<>>,
     url_data |-> None, new_click |-> None, victims |-> {}, status |-> 0,
     inserted |-> 0, write_failed |-> FALSE, incrs |-> 0, incr_failed |-> FALSE]

\* The table and the counters before any click.
Recorder0 ==
    /\ analytics = <<>>
    /\ click_seq = 0
    /\ counters = <<>>
    /\ db_up = TRUE
    /\ tracks = [p \in Procs |-> NoTrack]

\* Analytics(url_id=url_data.id, ...) as the INSERT stores it: id from the
\* sequence, clicked_at default datetime.utcnow.
Analytics(id, url_id) == [id |-> id, url_id |-> url_id, clicked_at |-> now]

\* DELETE FROM analytics WHERE id in ids.
DeleteClicks(tbl, ids) == SelectSeq(tbl, LAMBDA a : a.id \notin ids)

\* The ids of the rows DELETE FROM analytics WHERE url_id = :url_id finds.
ClicksOf(tbl, url_id) ==
    {tbl[i].id : i \in {j \in 1..Len(tbl) : tbl[j].url_id = url_id}}

\* datetime.utcnow().strftime("%Y-%m-%d"): the day now falls on.
strftime(t) == <<ToString(t \div 86400)>>

\* The keys of the counters.
Clicks == <<"c", "l", "i", "c", "k", "s", ":">>
ClicksKey(c) == Clicks \o c                              \* clicks:<code>
TotalKey == Clicks \o <<"t", "o", "t", "a", "l">>        \* clicks:total
DailyKey(c, t) == Clicks \o c \o <<":">> \o strftime(t)  \* clicks:<code>:<day>

\* INCR key: one more than the integer there, 1 for a key not there.
INCR(kv, key) ==
    [k \in DOMAIN kv \cup {key} |->
        IF k = key THEN (IF key \in DOMAIN kv THEN kv[key] ELSE 0) + 1
        ELSE kv[k]]

\* The key the n-th INCR of increment_click_counter goes to.
IncrKey(n, c, t) ==
    IF n = 1 THEN ClicksKey(c) ELSE IF n = 2 THEN TotalKey ELSE DailyKey(c, t)

\* The analytics service answers.
TrackAnswer(t, code) == [t EXCEPT !.status = code, !.pc = "done"]

\* A client sends POST /track {short_code: c}.
TrackBegin(p, c) ==
    /\ tracks[p].op = "idle"
    /\ click_seq < MaxClicks
    /\ tracks' = [tracks EXCEPT ![p] =
           [NoTrack EXCEPT !.op = "track", !.via = "client",
                           !.short_code = c, !.pc = "select"]]
    /\ UNCHANGED <<urls, cache, now, redis_up, reqs, ryw, ryw_cached, deleted>>
    /\ UNCHANGED <<analytics, click_seq, counters, db_up>>

\* A check that also turns deactivated links away.
NotFound_inactive(url_data) == url_data = None \/ ~url_data[1].is_active

\* "if not url_data:" of track_click and delete_analytics; the active flag
\* is not looked at.
NotFound(url_data) == url_data = None

\* await db.execute(select(URL).where(URL.short_code == ...)) of
\* track_click and of delete_analytics: 404 without a row; an exception of
\* the database is answered 500.
TrackSelect(p) ==
    LET t == tracks[p]
        url_data == SelectByCode(urls, t.short_code)
    IN
    /\ t.op \in {"track", "purge"} /\ t.pc = "select"
    /\ tracks' = [tracks EXCEPT ![p] =
           IF ~db_up THEN TrackAnswer(t, 500)
           ELSE IF NotFound(url_data) THEN TrackAnswer(t, 404)
           ELSE [t EXCEPT !.url_data = url_data,
                          !.pc = IF t.op = "track" THEN "commit" ELSE "delete"]]
    /\ UNCHANGED <<urls, cache, now, redis_up, reqs, ryw, ryw_cached, deleted>>
    /\ UNCHANGED <<analytics, click_seq, counters, db_up>>

\* url_id=url_data.id
ClickUrlId(url_data) == url_data.id

\* A handler that logs the failed commit and goes on to the counters.
OnCommitError_swallow(t) == [t EXCEPT !.write_failed = TRUE, !.pc = "incr"]

\* await db.commit() raises: no handler catches the exception, the request
\* is answered 500 and the steps after the commit do not run.
OnCommitError(t) == TrackAnswer([t EXCEPT !.write_failed = TRUE], 500)

\* db.add(new_click); await db.commit(): the INSERT of the click row.
TrackCommit(p) ==
    LET t == tracks[p]
        new_click == Analytics(click_seq + 1, ClickUrlId(t.url_data[1]))
    IN
    /\ t.op = "track" /\ t.pc = "commit"
    /\ IF db_up
       THEN /\ analytics' = Append(analytics, new_click)
            /\ click_seq' = click_seq + 1
            /\ tracks' = [tracks EXCEPT ![p] =
                   [t EXCEPT !.new_click = Some(new_click),
                             !.inserted = t.inserted + 1, !.pc = "refresh"]]
       ELSE /\ tracks' = [tracks EXCEPT ![p] = OnCommitError(t)]
            /\ UNCHANGED <<analytics, click_seq>>
    /\ UNCHANGED <<urls, cache, now, redis_up, reqs, ryw, ryw_cached, deleted>>
    /\ UNCHANGED <<counters, db_up>>

\* await db.refresh(new_click): the row is read again by its primary key;
\* a row that is gone, or an exception of the database, is answered 500.
TrackRefresh(p) ==
    LET t == tracks[p]
        rows == SelectSeq(analytics, LAMBDA a : a.id = t.new_click[1].id)
    IN
    /\ t.op = "track" /\ t.pc = "refresh"
    /\ tracks' = [tracks EXCEPT ![p] =
           IF ~db_up \/ Len(rows) = 0 THEN TrackAnswer(t, 500)
           ELSE [t EXCEPT !.new_click = Some(rows[1]), !.pc = "incr"]]
    /\ UNCHANGED <<urls, cache, now, redis_up, reqs, ryw, ryw_cached, deleted>>
    /\ UNCHANGED <<analytics, click_seq, counters, db_up>>

\* One await redis_client.incr(...) of increment_click_counter: the three
\* follow each other inside one try; an exception ends them and is
\* swallowed.  After the last, or the exception, track_click answers 201.
TrackIncr(p) ==
    LET t == tracks[p]
        done == [t EXCEPT !.incrs = t.incrs + 1]
    IN
    /\ t.op = "track" /\ t.pc = "incr"
    /\ IF redis_up
       THEN /\ counters' = INCR(counters, IncrKey(t.incrs + 1, t.short_code, now))
            /\ tracks' = [tracks EXCEPT ![p] =
                   IF done.incrs = 3 THEN TrackAnswer(done, 201) ELSE done]
       ELSE /\ tracks' = [tracks EXCEPT ![p] =
                   TrackAnswer([t EXCEPT !.incr_failed = TRUE], 201)]
            /\ UNCHANGED counters
    /\ UNCHANGED <<urls, cache, now, redis_up, reqs, ryw, ryw_cached, deleted>>
    /\ UNCHANGED <<analytics, click_seq, db_up>>

\* A client sends DELETE /analytics/{c}.
PurgeBegin(p, c) ==
    /\ tracks[p].op = "idle"
    /\ tracks' = [tracks EXCEPT ![p] =
           [NoTrack EXCEPT !.op = "purge", !.via = "client",
                           !.short_code = c, !.pc = "select"]]
    /\ UNCHANGED <<urls, cache, now, redis_up, reqs, ryw, ryw_cached, deleted>>
    /\ UNCHANGED <<analytics, click_seq, counters, db_up>>

\* A statement that deletes the rows of every short code.
PurgeVictims_all(tbl, url_id) == {tbl[i].id : i \in 1..Len(tbl)}

\* DELETE FROM analytics WHERE url_id = :url_id: the rows it deletes.
PurgeVictims(tbl, url_id) == ClicksOf(tbl, url_id)

\* await db.execute(text("DELETE FROM analytics WHERE url_id = :url_id")):
\* the statement takes the rows that are there when it runs.
PurgeDelete(p) ==
    LET t == tracks[p]
    IN
    /\ t.op = "purge" /\ t.pc = "delete"
    /\ tracks' = [tracks EXCEPT ![p] =
           IF ~db_up THEN TrackAnswer(t, 500)
           ELSE [t EXCEPT !.victims = PurgeVictims(analytics, t.url_data[1].id),
                          !.pc = "commit"]]
    /\ UNCHANGED <<urls, cache, now, redis_up, reqs, ryw, ryw_cached, deleted>>
    /\ UNCHANGED <<analytics, click_seq, counters, db_up>>

\* await db.commit() of the DELETE.
PurgeCommit(p) ==
    LET t == tracks[p]
    IN
    /\ t.op = "purge" /\ t.pc = "commit"
    /\ IF db_up
       THEN /\ analytics' = DeleteClicks(analytics, t.victims)
            /\ tracks' = [tracks EXCEPT ![p] = [t EXCEPT !.pc = "cache_del"]]
       ELSE /\ tracks' = [tracks EXCEPT ![p] = TrackAnswer(t, 500)]
            /\ UNCHANGED analytics
    /\ UNCHANGED <<urls, cache, now, redis_up, reqs, ryw, ryw_cached, deleted>>
    /\ UNCHANGED <<click_seq, counters, db_up>>

\* await redis_client.delete("clicks:<short_code>") inside try/except,
\* then the 200.
PurgeCacheDel(p) ==
    LET t == tracks[p]
        key == ClicksKey(t.short_code)
    IN
    /\ t.op = "purge" /\ t.pc = "cache_del"
    /\ counters' = IF redis_up
                   THEN [k \in DOMAIN counters \ {key} |-> counters[k]]
                   ELSE counters
    /\ tracks' = [tracks EXCEPT ![p] = TrackAnswer(t, 200)]
    /\ UNCHANGED <<urls, cache, now, redis_up, reqs, ryw, ryw_cached, deleted>>
    /\ UNCHANGED <<analytics, click_seq, db_up>>

\* The client of the analytics service has its response.
TrackReturn(p) ==
    /\ tracks[p].via = "client" /\ tracks[p].pc = "done"
    /\ tracks' = [tracks EXCEPT ![p] = NoTrack]
    /\ UNCHANGED <<urls, cache, now, redis_up, reqs, ryw, ryw_cached, deleted>>
    /\ UNCHANGED <<analytics, click_seq, counters, db_up>>

(***************************************************************************)
(* The gateway (services/api-gateway/main.py): verify_token, POST          *)
(* /api/urls/shorten and DELETE /api/urls/{short_code}.                    *)
(***************************************************************************)
\* JWT_SECRET_KEY, the key the auth service signs with and the gateway
\* verifies with.
JWT_SECRET_KEY == "your-secret-key-change-in-production"

\* A bearer token: the key its signature was made with, and its claims exp
\* (seconds) and user_id, each there or not.
Token(key, exp, user_id) ==
    [key |-> key, exp |-> exp, user_id |-> user_id, username |-> "ann"]

\* The Authorization header of a request: None (no header, or not a Bearer
\* one: HTTPBearer(auto_error=False)), or a token.
Credentials ==
    {None} \cup
    {Some(Token(key, exp, user_id)) :
        key \in {JWT_SECRET_KEY, "forged"},
        exp \in {None, Some(0), Some(TickSeconds)},
        user_id \in {None, Some(0), Some(7)}}

\* A decode that does not look at the exp claim.
jwt_decode_noexp(token, key, t) ==
    IF token.key # key THEN None
    ELSE Some([user_id |-> token.user_id, username |-> token.username])

\* jwt.decode(token, key, algorithms=[JWT_ALGORITHM]) at time t: the
\* payload, or None for a JWTError: a signature that does not verify with
\* key, or an exp claim that lies before t (a token without exp does not
\* expire).
jwt_decode(token, key, t) ==
    IF token.key # key THEN None
    ELSE IF token.exp # None /\ token.exp[1] < t THEN None
    ELSE Some([user_id |-> token.user_id, username |-> token.username])

\* verify_token: None without credentials, on a JWTError and for a payload
\* without user_id; otherwise {"user_id": .., "username": ..}.  It reads
\* the token, the key and the clock, and nothing else.
verify_token(credentials, t) ==
    IF credentials = None THEN None
    ELSE LET payload == jwt_decode(credentials[1], JWT_SECRET_KEY, t)
         IN  IF payload = None THEN None
             ELSE IF payload[1].user_id = None THEN None
             ELSE Some([user_id |-> payload[1].user_id[1],
                        username |-> payload[1].username])

\* "if not user_data: raise HTTPException(status_code=401)": a dict with
\* keys is truthy, None is not.
NotAuthenticated(user_data) == user_data = None

\* "if user_data: payload["user_id"] = user_data.get("user_id")": the
\* user_id of the payload sent to the url service, None when left out.
PayloadUserId(user_data) ==
    IF user_data # None THEN Some(user_data[1].user_id) ELSE None

\* shorten_url of the gateway up to its await client.post(URL_SERVICE_URL
\* /shorten): the identity is verified, and the request arrives at the url
\* service, unless that cannot be reached (httpx.RequestError: 503).
GwShortenBegin(p, credentials, alias, target, g, reachable) ==
    LET user_data == verify_token(credentials, now)
        r == [Idle EXCEPT !.op = "create", !.via = "gateway",
                          !.credentials = credentials,
                          !.user_data = user_data, !.alias = alias,
                          !.original_url = target,
                          !.user_id = PayloadUserId(user_data)]
    IN
    /\ reqs[p].op = "idle"
    /\ IF ~reachable
       THEN /\ reqs' = [reqs EXCEPT ![p] =
                   [r EXCEPT !.gw_status = 503, !.pc = "done"]]
            /\ UNCHANGED <<ryw, ryw_cached>>
       ELSE ShortenArrive(p, r, alias, g)
    /\ UNCHANGED <<analytics, click_seq, counters, db_up, tracks>>
    /\ UNCHANGED <<urls, cache, now, redis_up, deleted>>

\* delete_url of the gateway up to its await client.delete(URL_SERVICE_URL
\* /{short_code}, params={"user_id": ..}): 401 without an identity, before
\* anything is sent; 503 when the url service cannot be reached.
GwDeleteBegin(p, credentials, c, reachable) ==
    LET user_data == verify_token(credentials, now)
        r == [Idle EXCEPT !.op = "delete", !.via = "gateway",
                          !.credentials = credentials,
                          !.user_data = user_data, !.short_code = c]
    IN
    /\ reqs[p].op = "idle"
    /\ IF NotAuthenticated(user_data) \/ ~reachable
       THEN /\ reqs' = [reqs EXCEPT ![p] =
                   [r EXCEPT !.gw_status = IF NotAuthenticated(user_data)
                                           THEN 401 ELSE 503,
                             !.pc = "done"]]
            /\ UNCHANGED <<ryw, ryw_cached>>
       ELSE DeleteArrive(p, r, c, Some(user_data[1].user_id))
    /\ UNCHANGED <<analytics, click_seq, counters, db_up, tracks>>
    /\ UNCHANGED <<urls, cache, now, redis_up, deleted>>

\* The checks of response.status_code in shorten_url: 201, 409 and 400 are
\* passed on, any other status is raised as 500.
ShortenStatus(status_code) ==
    IF status_code \in {201, 409, 400} THEN status_code ELSE 500

\* The checks of response.status_code in delete_url: 200 and 404 are passed
\* on, any other status is raised as 500.
DeleteStatus(status_code) ==
    IF status_code \in {200, 404} THEN status_code ELSE 500

\* The gateway reads the url service's answer to the POST or the DELETE.
GwRoute(p) ==
    LET r == reqs[p]
    IN
    /\ r.op \in {"create", "delete"} /\ r.pc = "gw_route"
    /\ reqs' = [reqs EXCEPT ![p] =
           [r EXCEPT !.gw_status = IF r.op = "create"
                                   THEN ShortenStatus(r.status)
                                   ELSE DeleteStatus(r.status),
                     !.pc = "done"]]
    /\ UNCHANGED <<analytics, click_seq, counters, db_up, tracks>>
    /\ UNCHANGED <<urls, cache, now, redis_up, ryw, ryw_cached, deleted>>

(***************************************************************************)
(* GET /{short_code} of the gateway                                        *)
(***************************************************************************)
Api == <<"a", "p", "i">>
Health == <<"h", "e", "a", "l", "t", "h">>
OpenapiJson == <<"o", "p", "e", "n", "a", "p", "i", ".", "j", "s", "o", "n">>
ReservedSegments == {Health, Docs, OpenapiJson}

\* A code generate_short_code can return: six characters drawn from
\* string.ascii_letters + string.digits, here with the first three "api".
ApiGen == <<"a", "p", "i", "g", "g", "0">>

\* A gateway that takes every path segment for a short code.
Reserved_none(c) == FALSE

\* short_code.startswith("api") or short_code in ["health", "docs",
\* "openapi.json"]
Reserved(c) ==
    \/ Len(c) >= Len(Api) /\ SubSeq(c, 1, Len(Api)) = Api
    \/ c \in ReservedSegments

\* What the call of the tracking endpoint can do: answer (201, 404, any
\* error status), fail to connect, or exceed timeout=2.0.
TrackOutcomes == {"201", "404", "500", "unreachable", "timeout"}

\* The outcomes that raise in the gateway: httpx.ConnectError and
\* httpx.TimeoutException; an answer of any status raises nothing.
TrackRaises(outcome) == outcome \in {"unreachable", "timeout"}

\* A handler that catches connection errors only.
TrackCaught_connect(outcome) == outcome = "unreachable"

\* "except Exception as e": what the handler around the tracking call
\* catches.
TrackCaught(outcome) == outcome \in {"unreachable", "timeout"}

\* Entry of redirect_to_url with its await client.get(URL_SERVICE_URL/..):
\* 404 for a reserved segment, 503 when the url service cannot be reached
\* (httpx.RequestError), and otherwise the request arrives there.
RedirectBegin(p, c, reachable) ==
    LET r == [Idle EXCEPT !.op = "redirect", !.short_code = c]
    IN
    /\ reqs[p].op = "idle"
    /\ IF Reserved(c) \/ ~reachable
       THEN /\ reqs' = [reqs EXCEPT ![p] =
                   [r EXCEPT !.gw_status = IF Reserved(c) THEN 404 ELSE 503,
                             !.pc = "done"]]
            /\ UNCHANGED <<ryw, ryw_cached>>
       ELSE Arrive(p, r, c)
    /\ UNCHANGED <<analytics, click_seq, counters, db_up, tracks>>
    /\ UNCHANGED <<urls, cache, now, redis_up, deleted>>

\* A gateway that stops at 404 only.
GatewayStatus_lenient(status_code) == IF status_code = 404 THEN 404 ELSE 200

\* The checks of url_response.status_code: 404 and 410 are raised as they
\* are, any other status but 200 is raised as 500; 200 lets the handler go
\* on.
GatewayStatus(status_code) ==
    IF status_code = 404 THEN 404
    ELSE IF status_code = 410 THEN 410
    ELSE IF status_code # 200 THEN 500
    ELSE 200

\* url_data.get("original_url"): None for a body without the key.
OriginalUrl(body) ==
    IF body = None THEN None ELSE Some(body[1].original_url)

\* The gateway reads the url service's answer: an HTTPException for a
\* status that is not 200, and otherwise the target from the body.
RedirectRoute(p) ==
    LET r == reqs[p]
        code == GatewayStatus(r.status)
    IN
    /\ r.op = "redirect" /\ r.pc = "gw_route"
    /\ reqs' = [reqs EXCEPT ![p] =
           IF code # 200 THEN [r EXCEPT !.gw_status = code, !.pc = "done"]
           ELSE [r EXCEPT !.location = OriginalUrl(r.body),
                          !.pc = "gw_track"]]
    /\ UNCHANGED <<analytics, click_seq, counters, db_up, tracks>>
    /\ UNCHANGED <<urls, cache, now, redis_up, ryw, ryw_cached, deleted>>

\* A gateway that sends the tracking call again when it timed out.
AfterTrack_retry(r, outcome) ==
    IF outcome = "timeout"
    THEN [r EXCEPT !.track = outcome, !.pc = "gw_track"]
    ELSE [r EXCEPT !.track = outcome, !.gw_status = 307, !.pc = "done"]

\* What the gateway does once the tracking call is over with outcome:
\* RedirectResponse(url=original_url, status_code=307), unless the call
\* raised an exception the inner handler does not catch, which reaches the
\* outer "except httpx.RequestError": 503.
AfterTrack(r, outcome) ==
    IF TrackRaises(outcome) /\ ~TrackCaught(outcome)
    THEN [r EXCEPT !.track = outcome, !.gw_status = 503,
                   !.location = None, !.pc = "done"]
    ELSE [r EXCEPT !.track = outcome, !.gw_status = 307, !.pc = "done"]

\* await client.post(ANALYTICS_SERVICE_URL/track, timeout=2.0) inside
\* try/except: the request is sent, and arrives at the analytics service
\* unless the service cannot be reached.
RedirectTrack(p, reachable) ==
    LET r == reqs[p]
    IN
    /\ r.op = "redirect" /\ r.pc = "gw_track"
    /\ tracks[p].via # "client"
    /\ reachable => click_seq < MaxClicks
    /\ IF reachable
       THEN /\ reqs' = [reqs EXCEPT ![p] =
                   [r EXCEPT !.emitted = r.emitted + 1, !.sent_at = Some(now),
                             !.pc = "gw_wait"]]
            /\ tracks' = [tracks EXCEPT ![p] =
                   [NoTrack EXCEPT !.op = "track", !.via = "gateway",
                                   !.short_code = r.short_code,
                                   !.pc = "select"]]
       ELSE /\ reqs' = [reqs EXCEPT ![p] =
                   AfterTrack([r EXCEPT !.emitted = r.emitted + 1],
                              "unreachable")]
            /\ UNCHANGED tracks
    /\ UNCHANGED <<urls, cache, now, redis_up, ryw, ryw_cached, deleted>>
    /\ UNCHANGED <<analytics, click_seq, counters, db_up>>

\* The await of the tracking call ends with the analytics service's
\* answer, which came within the timeout.
RedirectAnswer(p) ==
    LET r == reqs[p]
    IN
    /\ r.op = "redirect" /\ r.pc = "gw_wait"
    /\ tracks[p].pc = "done" /\ now < r.sent_at[1] + timeout
    /\ reqs' = [reqs EXCEPT ![p] = AfterTrack(r, ToString(tracks[p].status))]
    /\ UNCHANGED <<urls, cache, now, redis_up, ryw, ryw_cached, deleted>>
    /\ UNCHANGED <<analytics, click_seq, counters, db_up, tracks>>

\* The await of the tracking call ends with httpx.TimeoutException: no
\* answer came within the timeout.  The analytics service goes on with the
\* request.
RedirectTimeout(p) ==
    LET r == reqs[p]
    IN
    /\ r.op = "redirect" /\ r.pc = "gw_wait"
    /\ tracks[p].pc # "done" \/ now >= r.sent_at[1] + timeout
    /\ reqs' = [reqs EXCEPT ![p] = AfterTrack(r, "timeout")]
    /\ UNCHANGED <<urls, cache, now, redis_up, ryw, ryw_cached, deleted>>
    /\ UNCHANGED <<analytics, click_seq, counters, db_up, tracks>>

(***************************************************************************)
(* The environment.                                                        *)
(***************************************************************************)
\* The client has its response, and the analytics service is through with
\* the tracking call the request sent: the slot is free for the next
\* request.
Return(p) ==
    /\ reqs[p].pc = "done"
    /\ tracks[p].via = "gateway" => tracks[p].pc = "done"
    /\ reqs' = [reqs EXCEPT ![p] = Idle]
    /\ tracks' = [tracks EXCEPT ![p] =
           IF tracks[p].via = "gateway" THEN NoTrack ELSE tracks[p]]
    /\ UNCHANGED <<analytics, click_seq, counters, db_up>>
    /\ UNCHANGED <<urls, cache, now, redis_up, ryw, ryw_cached, deleted>>

\* PostgreSQL becomes unreachable, or reachable again.
DbFlip ==
    /\ db_up' = ~db_up
    /\ UNCHANGED <<urls, cache, now, redis_up, reqs, ryw, ryw_cached, deleted>>
    /\ UNCHANGED <<analytics, click_seq, counters, tracks>>

\* Redis becomes unreachable, or reachable again.
RedisFlip ==
    /\ redis_up' = ~redis_up
    /\ UNCHANGED <<analytics, click_seq, counters, db_up, tracks>>
    /\ UNCHANGED <<urls, cache, now, reqs, ryw, ryw_cached, deleted>>

\* Time passes; Redis drops the keys whose time-to-live has ended.
Tick ==
    /\ now < MaxTicks * TickSeconds
    /\ now' = now + TickSeconds
    /\ cache' = [k \in {c \in DOMAIN cache : cache[c].exp > now'} |-> cache[k]]
    /\ UNCHANGED <<analytics, click_seq, counters, db_up, tracks>>
    /\ UNCHANGED <<urls, redis_up, reqs, ryw, ryw_cached, deleted>>

(***************************************************************************)
(* Specifications.                                                         *)
(***************************************************************************)
Unknown == <<"n", "o", "n", "e">>

Init ==
    /\ urls = <<>>
    /\ cache = <<>>
    /\ now = 0
    /\ redis_up = TRUE
    /\ reqs = [p \in Procs |-> Idle]
    /\ ryw = {}
    /\ ryw_cached = <<>>
    /\ deleted = {}
    /\ Recorder0

\* The steps of get_original_url, for the requests in the slots P.
ResolveSteps(P) ==
    \/ \E p \in P : ResolveCacheGet(p)
    \/ \E p \in P : ResolveSelect(p)
    \/ \E p \in P : ResolveCacheSet(p)

\* The requests of the url service: slots P, aliases A, targets T, users U,
\* random codes G, codes C.
UrlService(P, A, T, U, G, C) ==
    \/ \E p \in P, alias \in A, target \in T, user \in U, g \in G :
           CreateBegin(p, alias, target, user, g)
    \/ \E p \in P, g \in G : CreateCommit(p, g)
    \/ \E p \in P : CreateRefresh(p)
    \/ \E p \in P : CreateCacheSet(p)
    \/ \E p \in P, c \in C : ResolveBegin(p, c)
    \/ ResolveSteps(P)
    \/ \E p \in P, c \in C, user \in U : DeleteBegin(p, c, user)
    \/ \E p \in P : DeleteCommit(p)
    \/ \E p \in P : DeleteCacheDel(p)
    \/ \E p \in P : Return(p)

\* The redirects of the gateway: slots P, codes C, and R, whether the
\* analytics service can be reached.
Gateway(P, C, R) ==
    \/ \E p \in P, c \in C, reachable \in BOOLEAN :
           RedirectBegin(p, c, reachable)
    \/ \E p \in P : RedirectRoute(p)
    \/ \E p \in P, reachable \in R : RedirectTrack(p, reachable)

\* The ends of the gateway's wait for the tracking call.
GatewayWait(P) ==
    \/ \E p \in P : RedirectAnswer(p)
    \/ \E p \in P : RedirectTimeout(p)

\* The steps of track_click, for the requests in the slots P.
TrackClick(P) ==
    \/ \E p \in P : TrackSelect(p)
    \/ \E p \in P : TrackCommit(p)
    \/ \E p \in P : TrackRefresh(p)
    \/ \E p \in P : TrackIncr(p)

\* The requests clients send to the analytics service: slots P, codes C.
Recorder(P, C) ==
    \/ \E p \in P, c \in C : TrackBegin(p, c)
    \/ \E p \in P, c \in C : PurgeBegin(p, c)
    \/ \E p \in P : PurgeDelete(p)
    \/ \E p \in P : PurgeCommit(p)
    \/ \E p \in P : PurgeCacheDel(p)
    \/ \E p \in P : TrackReturn(p)

\* Concurrent requests on one alias and one random code.
Next ==
    UrlService(Procs, {None, Some(Docs)}, Targets, {None},
               {Gen(0)}, {Docs, Gen(0)})

Spec == Init /\ [][Next]_vars

\* One request at a time, through the url service or the gateway, on a
\* store that may hold a row with an expiry, while time passes and Redis
\* comes and goes.  The analytics service is not running.
InitSeq ==
    /\ urls \in {<<>>, <<old>>}
    /\ cache = <<>>
    /\ now = 0
    /\ redis_up = TRUE
    /\ reqs = [p \in Procs |-> Idle]
    /\ ryw = {}
    /\ ryw_cached = <<>>
    /\ deleted = {}
    /\ Recorder0

NextSeq ==
    \/ UrlService({1}, {Some(Mixed)}, Targets, {None}, {Gen(0)},
                  {Mixed, old.short_code, Unknown})
    \/ Gateway({1}, {Mixed, old.short_code, Unknown, Docs}, {FALSE})
    \/ RedisFlip
    \/ Tick

SpecSeq == InitSeq /\ [][NextSeq]_vars

\* One create at a time, over the aliases a client can send and the codes
\* the generator can return.
Aliases ==
    {None, Some(<<>>), Some(<<"a", "b">>), Some(Mixed), Some(Hyphens),
     Some(<<"_">>), Some(<<"a", " ", "b">>), Some(Half),
     Some(Repeat("x", 20)), Some(Repeat("x", 21))}

NextAlias ==
    \/ \E alias \in Aliases, g \in GenCodes :
           CreateBegin(1, alias, "https://example.com/a", None, g)
    \/ \E g \in GenCodes : CreateCommit(1, g)
    \/ CreateRefresh(1)
    \/ CreateCacheSet(1)
    \/ Return(1)

SpecAlias == Init /\ [][NextAlias]_vars

\* One request at a time, to the url service, the gateway or the analytics
\* service, on a store that holds an active and a deactivated row.
InitRec ==
    /\ urls = <<old, gone>>
    /\ cache = <<>>
    /\ now = 0
    /\ redis_up = TRUE
    /\ reqs = [p \in Procs |-> Idle]
    /\ ryw = {}
    /\ ryw_cached = <<>>
    /\ deleted = {}
    /\ Recorder0

NextRec ==
    \/ UrlService({1}, {Some(Mixed)}, {"https://example.com/a"}, {None},
                  {Gen(0)}, {Mixed, Unknown})
    \/ Gateway({1}, {Mixed, old.short_code, Unknown}, BOOLEAN)
    \/ GatewayWait({1})
    \/ TrackClick(Procs)
    \/ Recorder({2}, {Mixed, gone.short_code, Unknown})

SpecRec == InitRec /\ [][NextRec]_vars

\* One create or delete at a time, from no user and from the users 0, 7
\* and 8, while Redis comes and goes.
Users == {None, Some(0), Some(7), Some(8)}

NextOwn ==
    \/ \E user \in Users :
           CreateBegin(1, Some(Mixed), "https://example.com/a", user, Gen(0))
    \/ CreateCommit(1, Gen(0))
    \/ CreateRefresh(1)
    \/ CreateCacheSet(1)
    \/ \E c \in {Mixed, Unknown}, user \in Users : DeleteBegin(1, c, user)
    \/ DeleteCommit(1)
    \/ DeleteCacheDel(1)
    \/ Return(1)
    \/ RedisFlip

SpecOwn == Init /\ [][NextOwn]_vars

\* One redirect, tracking call or purge at a time, on the same store, while
\* PostgreSQL and Redis come and go.
NextFail ==
    \/ Gateway({1}, {old.short_code, gone.short_code, Unknown}, BOOLEAN)
    \/ ResolveSteps({1})
    \/ GatewayWait({1})
    \/ TrackClick({1})
    \/ Recorder({1}, {gone.short_code})
    \/ Return(1)
    \/ RedisFlip
    \/ DbFlip

SpecFail == InitRec /\ [][NextFail]_vars

\* One request at a time: a create at the url service, or a redirect at
\* the gateway, reserved path segments included, with the analytics
\* service running, while time passes.
NextGw ==
    \/ \E alias \in {None, Some(Api), Some(Docs)} :
           CreateBegin(1, alias, "https://example.com/a", None, Gen(0))
    \/ CreateCommit(1, Gen(0))
    \/ CreateRefresh(1)
    \/ CreateCacheSet(1)
    \/ \E c \in {Api, Gen(0)} : DeleteBegin(1, c, None)
    \/ DeleteCommit(1)
    \/ DeleteCacheDel(1)
    \/ Gateway({1}, {Api, Health, Docs, OpenapiJson, Gen(0)}, BOOLEAN)
    \/ ResolveSteps({1})
    \/ GatewayWait({1})
    \/ TrackClick({1})
    \/ Return(1)
    \/ Tick

SpecGw == Init /\ [][NextGw]_vars

\* One request at a time with every service reachable: creates with the
\* alias api or with a generated code, which the generator may start with
\* "api", and redirects of the codes created, while time passes.
NextCode ==
    \/ \E alias \in {None, Some(Api)}, g \in {Gen(0), ApiGen} :
           CreateBegin(1, alias, "https://example.com/a", None, g)
    \/ \E g \in {Gen(0), ApiGen} : CreateCommit(1, g)
    \/ CreateRefresh(1)
    \/ CreateCacheSet(1)
    \/ \E c \in {Api, Gen(0), ApiGen} : RedirectBegin(1, c, TRUE)
    \/ RedirectRoute(1)
    \/ RedirectTrack(1, TRUE)
    \/ ResolveSteps({1})
    \/ GatewayWait({1})
    \/ TrackClick({1})
    \/ Return(1)
    \/ Tick

SpecCode == Init /\ [][NextCode]_vars

\* One request at a time, a create or a redirect through the gateway, with
\* the analytics service accepting the tracking call and answering it late
\* or never.
TermSteps(p) ==
    \/ CreateCommit(p, Gen(0))
    \/ CreateRefresh(p)
    \/ CreateCacheSet(p)
    \/ RedirectRoute(p)
    \/ \E reachable \in BOOLEAN : RedirectTrack(p, reachable)
    \/ ResolveSteps({p})
    \/ GatewayWait({p})

NextTerm ==
    \/ \E alias \in {None, Some(Mixed)} :
           CreateBegin(1, alias, "https://example.com/a", None, Gen(0))
    \/ \E c \in {Mixed, Gen(0), Unknown, Api}, reachable \in BOOLEAN :
           RedirectBegin(1, c, reachable)
    \/ TermSteps(1)
    \/ TrackClick({1})
    \/ Return(1)
    \/ Tick

\* The url service and the gateway take the next step of every request
\* they hold: the database and Redis answer, and the timer of the
\* tracking call runs out.  Nothing is assumed of the analytics service.
SpecTerm ==
    /\ Init
    /\ [][NextTerm]_vars
    /\ \A p \in Procs : WF_vars(TermSteps(p))

\* One shorten or delete at a time through the gateway, with or without a
\* bearer token, while time passes.
NextAuth ==
    \/ \E credentials \in Credentials, reachable \in BOOLEAN :
           GwShortenBegin(1, credentials, Some(Mixed), "https://example.com/a",
                          Gen(0), reachable)
    \/ CreateCommit(1, Gen(0))
    \/ CreateRefresh(1)
    \/ CreateCacheSet(1)
    \/ \E credentials \in Credentials, c \in {Mixed, Unknown},
          reachable \in BOOLEAN :
           GwDeleteBegin(1, credentials, c, reachable)
    \/ DeleteCommit(1)
    \/ DeleteCacheDel(1)
    \/ GwRoute(1)
    \/ Return(1)
    \/ Tick

SpecAuth == Init /\ [][NextAuth]_vars

\* Concurrent resolves and redirects of one link that is in the store and
\* not in the cache, while time passes and Redis comes and goes.  The
\* analytics service is not running.
NextRace ==
    \/ \E p \in Procs : ResolveBegin(p, old.short_code)
    \/ Gateway(Procs, {old.short_code}, {FALSE})
    \/ ResolveSteps(Procs)
    \/ \E p \in Procs : Return(p)
    \/ RedisFlip
    \/ Tick

SpecRace == InitRec /\ [][NextRace]_vars

\* Two concurrent requests on one alias while time passes without end.
\* The clock counts from the present: when TickSeconds pass, every instant
\* the state remembers moves TickSeconds into the past (an instant more
\* than ttl ago is remembered as ttl ago, which no comparison of the
\* program can tell apart), and Redis drops the keys whose time-to-live
\* has ended.
Past(t) ==
    IF t - TickSeconds < now - ttl THEN now - ttl ELSE t - TickSeconds

PastOpt(o) == IF o = None THEN None ELSE Some(Past(o[1]))

TickLive ==
    /\ cache' = [k \in {c \in DOMAIN cache :
                           cache[c].exp - TickSeconds > now} |->
                    [cache[k] EXCEPT !.exp = @ - TickSeconds]]
    /\ ryw_cached' = [k \in DOMAIN ryw_cached |-> Past(ryw_cached[k])]
    /\ reqs' = [p \in Procs |->
                   [reqs[p] EXCEPT !.cached_at = PastOpt(@),
                                   !.checked_at = PastOpt(@)]]
    /\ UNCHANGED <<analytics, click_seq, counters, db_up, tracks>>
    /\ UNCHANGED <<urls, now, redis_up, ryw, deleted>>

\* The steps that take the request in slot p from its arrival to its
\* response.
LiveSteps(p) ==
    \/ CreateCommit(p, Mixed)
    \/ CreateRefresh(p)
    \/ CreateCacheSet(p)
    \/ ResolveCacheGet(p)
    \/ ResolveSelect(p)
    \/ ResolveCacheSet(p)
    \/ DeleteCommit(p)
    \/ DeleteCacheDel(p)
    \/ Return(p)

NextLive ==
    \/ \E p \in Procs :
           CreateBegin(p, Some(Mixed), "https://example.com/a", None, Mixed)
    \/ \E p \in Procs : ResolveBegin(p, Mixed)
    \/ \E p \in Procs : DeleteBegin(p, Mixed, None)
    \/ \E p \in Procs : LiveSteps(p)
    \/ TickLive

\* Every request in flight takes its next step in the end (the event loop
\* resumes every coroutine whose await has finished), and time passes.
SpecLive ==
    /\ Init
    /\ [][NextLive]_vars
    /\ \A p \in Procs : WF_vars(LiveSteps(p))
    /\ WF_vars(TickLive)

\* Creates of the aliases total and a-_ at the url service, and clicks and
\* purges that clients send to the analytics service, two at a time, with
\* PostgreSQL and Redis reachable throughout.  A purge keeps its slot once
\* it is answered, so that a state shows whether a purge has happened.
Total == <<"t", "o", "t", "a", "l">>              \* "total"

NextCount ==
    \/ \E alias \in {Some(Total), Some(Mixed)} :
           CreateBegin(1, alias, "https://example.com/a", None, Gen(0))
    \/ CreateCommit(1, Gen(0))
    \/ CreateRefresh(1)
    \/ CreateCacheSet(1)
    \/ Return(1)
    \/ \E p \in Procs, c \in {Total, Mixed} : TrackBegin(p, c)
    \/ \E p \in Procs, c \in {Total, Mixed} : PurgeBegin(p, c)
    \/ TrackClick(Procs)
    \/ \E p \in Procs : PurgeDelete(p)
    \/ \E p \in Procs : PurgeCommit(p)
    \/ \E p \in Procs : PurgeCacheDel(p)
    \/ \E p \in Procs : tracks[p].op = "track" /\ TrackReturn(p)

SpecCount == Init /\ [][NextCount]_vars

\* The tokens the auth service issues: create_access_token signs
\* {"user_id": db_user.id, "username": ..} with an exp claim, and
\* db_user.id comes from the sequence of users.id, which starts at 1.
Callers ==
    {Some(Token(JWT_SECRET_KEY, Some(TickSeconds), Some(id))) : id \in {7, 8}}

\* Requests through the gateway, one at a time: POST /api/urls/shorten
\* without a token or with the token of a user, and DELETE /api/urls/a-_
\* with the token of a user.
CallerSteps(p) ==
    \/ CreateCommit(p, Gen(0))
    \/ CreateRefresh(p)
    \/ CreateCacheSet(p)
    \/ DeleteCommit(p)
    \/ DeleteCacheDel(p)
    \/ GwRoute(p)
    \/ Return(p)

NextCaller ==
    \/ \E credentials \in {None} \cup Callers, reachable \in BOOLEAN :
           GwShortenBegin(1, credentials, Some(Mixed), "https://example.com/a",
                          Gen(0), reachable)
    \/ \E credentials \in Callers, reachable \in BOOLEAN :
           GwDeleteBegin(1, credentials, Mixed, reachable)
    \/ CallerSteps(1)

\* Every request is served to its end, and every user keeps sending the
\* delete: each user's DELETE reaches the url service again and again.
SpecCaller ==
    /\ Init
    /\ [][NextCaller]_vars
    /\ WF_vars(CallerSteps(1))
    /\ \A credentials \in Callers :
           SF_vars(GwDeleteBegin(1, credentials, Mixed, TRUE))

(***************************************************************************)
(* Properties.                                                             *)
(***************************************************************************)
Answered(r) == r.status # 0

\* The row of the store with code c (there is one).
RowOf(c) == SelectByCode(urls, c)[1]

\* C1: no two rows of the store have the same short code, whatever their
\* active flags, after any interleaving of create and delete requests.
C1_Uniqueness ==
    \A i, j \in 1..Len(urls) :
        i # j => urls[i].short_code # urls[j].short_code

\* Two creates of one alias race: one has inserted its row, the other is
\* about to commit its own, and the row is already deactivated.
C1_Witness ==
    \E p, q \in Procs :
        /\ reqs[p].op = "create" /\ reqs[p].pc = "refresh"
        /\ reqs[q].op = "create" /\ reqs[q].pc = "commit"
        /\ reqs[q].short_code = reqs[p].short_code
        /\ Len(urls) = 2
        /\ \E i \in 1..Len(urls) : ~urls[i].is_active

\* C2: the first request on a code since its create answered, with no
\* other request on the code since the row was inserted, resolves to the
\* created target; and its cache lookup, when Redis is reachable at the
\* create's write and at the lookup, within the time-to-live, is a hit
\* that answers from the cache.
C2_ReadYourWrite ==
    /\ [](\A p \in Procs :
            reqs[p].fresh /\ Answered(reqs[p]) =>
                /\ reqs[p].status = 200
                /\ reqs[p].body[1].original_url
                       = RowOf(reqs[p].short_code).original_url)
    /\ [][\A p \in Procs :
            /\ reqs[p].pc = "cache_get" /\ reqs'[p].pc # "cache_get"
            /\ reqs[p].fresh /\ reqs[p].cached_at # None
            /\ redis_up /\ now < reqs[p].cached_at[1] + ttl
            => /\ reqs'[p].status = 200
               /\ reqs'[p].body[1] =
                      [original_url |-> RowOf(reqs[p].short_code).original_url,
                       source |-> "cache"]]_vars

\* A resolve right after a create during which Redis was unreachable: it
\* is answered from the database, with the created target.
C2_Witness ==
    \E p \in Procs :
        /\ reqs[p].op = "resolve" /\ reqs[p].pc = "done"
        /\ reqs[p].fresh /\ reqs[p].cached_at = None
        /\ reqs[p].status = 200 /\ reqs[p].body[1].source = "database"
        /\ reqs[p].body[1].original_url = "https://example.com/b"

\* C3: a resolve that arrives after a delete of its code has answered 200,
\* and finds no cache entry, answers 410: not the target, not 404.
C3_GoneAfterDelete ==
    \A p \in Procs :
        /\ reqs[p].op \in {"resolve", "redirect"}
        /\ reqs[p].after_delete
        /\ Answered(reqs[p])
        /\ reqs[p].cached_url = None
        => reqs[p].status = 410 /\ reqs[p].body = None

\* A resolve after a delete that misses the cache and answers 410.
C3_Witness ==
    \E p \in Procs :
        /\ reqs[p].op = "resolve" /\ reqs[p].pc = "done"
        /\ reqs[p].after_delete /\ reqs[p].cached_url = None
        /\ reqs[p].status = 410

\* C4: on a cache miss the resolve answers 404 without a row, 410 for an
\* inactive row, 410 for an active row whose expiry is set and in the past,
\* all three without writing the cache; otherwise it answers 200 with the
\* row's target from the database and (Redis reachable) writes the entry
\* code -> target with the time-to-live.
C4_MissOutcome ==
    [][\A p \in Procs :
        LET r == reqs[p]
            r2 == reqs'[p]
            c == r.short_code
            row == SelectByCode(urls, c)
        IN
        /\ r.pc = "select" /\ r2.pc # "select" =>
              /\ urls' = urls
              /\ row = None => r2.status = 404 /\ cache' = cache
              /\ row # None /\ ~row[1].is_active =>
                     r2.status = 410 /\ cache' = cache
              /\ /\ row # None /\ row[1].is_active
                 /\ row[1].expires_at # None /\ row[1].expires_at[1] < now
                 => r2.status = 410 /\ cache' = cache
              /\ /\ row # None /\ row[1].is_active
                 /\ (row[1].expires_at = None \/ row[1].expires_at[1] >= now)
                 => /\ r2.pc = "cache_set" /\ ~Answered(r2)
                    /\ r2.url_data = row
        /\ r.pc = "cache_set" /\ r2.pc # "cache_set" =>
              /\ urls' = urls
              /\ r2.status = 200
              /\ r2.body = Some([original_url |-> r.url_data[1].original_url,
                                 source |-> "database"])
              /\ redis_up =>
                     /\ c \in DOMAIN cache'
                     /\ cache'[c] = [val |-> r.url_data[1].original_url,
                                     exp |-> now + ttl]]_vars

\* A resolve that missed the cache and answered 410 for an active row
\* whose expiry had passed.
C4_Witness ==
    \E p \in Procs :
        /\ reqs[p].op = "resolve" /\ reqs[p].pc = "done"
        /\ reqs[p].cached_url = None /\ reqs[p].status = 410
        /\ reqs[p].url_data # None /\ reqs[p].url_data[1].is_active
        /\ reqs[p].url_data[1].expires_at[1] < reqs[p].checked_at[1]

\* C5: a resolve whose lookup finds a cache entry for its code answers 200
\* with the cached target in the same step, whatever the row's active flag
\* and expiry, without reading the store and without changing the entry
\* (its value and the end of its time-to-live) or the store.
C5_HitTrusted ==
    [][\A p \in Procs :
        LET r == reqs[p]
            r2 == reqs'[p]
            c == r.short_code
        IN
        /\ r.pc = "cache_get" /\ r2.pc # "cache_get"
        /\ redis_up /\ c \in DOMAIN cache
        => /\ r2.status = 200
           /\ r2.body = Some([original_url |-> cache[c].val,
                              source |-> "cache"])
           /\ r2.url_data = None /\ r2.checked_at = None
           /\ cache' = cache
           /\ urls' = urls]_vars

\* A resolve answered from the cache, after a clock tick since the entry
\* was written, while the row of the code is deactivated.
C5_Witness ==
    \E p \in Procs :
        /\ reqs[p].op = "resolve" /\ reqs[p].pc = "done"
        /\ reqs[p].status = 200 /\ reqs[p].body[1].source = "cache"
        /\ ~RowOf(reqs[p].short_code).is_active
        /\ reqs[p].short_code \in DOMAIN cache
        /\ cache[reqs[p].short_code].exp < now + ttl

\* C6: a create without alias commits at most max_attempts = 10 times; it
\* answers 500 after exactly 10 commits that all collided, and only then;
\* it answers 201 at the first commit that does not collide, the k-th
\* after k - 1 collisions.
C6_BoundedRetry ==
    \A p \in Procs :
        LET r == reqs[p]
        IN  r.op = "create" /\ ~AliasGiven(r.alias) =>
                /\ r.commits <= 10
                /\ r.pc = "commit" => r.collisions = r.commits /\ r.commits < 10
                /\ Answered(r) => r.status \in {201, 500}
                /\ r.status = 500 => r.commits = 10 /\ r.collisions = 10
                /\ r.status = 201 => r.commits = r.collisions + 1
                /\ r.collisions = 10 => r.status = 500

\* A create without alias that answered 500 after ten collisions.
C6_Witness ==
    \E p \in Procs :
        /\ reqs[p].op = "create" /\ reqs[p].alias = None
        /\ reqs[p].status = 500
        /\ reqs[p].commits = 10 /\ reqs[p].collisions = 10

\* C7: a create with a custom alias a row already holds commits once,
\* answers 409 at that commit without trying another code, and leaves the
\* store (the row's target, owner, active flag) and the cache unchanged.
C7_AliasTaken ==
    /\ [](\A p \in Procs :
            reqs[p].op = "create" /\ AliasGiven(reqs[p].alias) =>
                /\ reqs[p].short_code = reqs[p].alias[1]
                /\ reqs[p].commits <= 1)
    /\ [][\A p \in Procs :
            LET r == reqs[p]
                r2 == reqs'[p]
            IN
            /\ r.op = "create" /\ r.pc = "commit" /\ AliasGiven(r.alias)
            /\ r2.commits = r.commits + 1
            /\ \E i \in 1..Len(urls) : urls[i].short_code = r.alias[1]
            => /\ r2.status = 409 /\ r2.pc = "done"
               /\ r2.commits = 1
               /\ urls' = urls
               /\ cache' = cache]_vars

\* A create answered 409 for an alias whose row holds another target and
\* whose cache entry is in place.
C7_Witness ==
    \E p \in Procs :
        /\ reqs[p].op = "create" /\ reqs[p].status = 409
        /\ reqs[p].commits = 1
        /\ RowOf(reqs[p].short_code).original_url # reqs[p].original_url
        /\ reqs[p].short_code \in DOMAIN cache
        /\ cache[reqs[p].short_code].val # reqs[p].original_url

\* The aliases the specification accepts: 3 to 20 characters, each a
\* letter, a digit, "-" or "_".
SpecValid(s) ==
    /\ Len(s) >= 3 /\ Len(s) <= 20
    /\ \A i \in 1..Len(s) : s[i] \in AsciiLetters \cup AsciiDigits \cup {"-", "_"}

\* C8: a create with an alias of 3 to 20 letters, digits, "-" and "_" is
\* not rejected as invalid: it is answered 201 with the alias as its short
\* code, or 409 when a row holds the alias.
C8_ValidAliasAccepted ==
    \A p \in Procs :
        LET r == reqs[p]
        IN  r.op = "create" /\ r.alias # None /\ SpecValid(r.alias[1]) =>
                /\ r.short_code = r.alias[1]
                /\ Answered(r) => r.status \in {201, 409}
                /\ r.status = 201 => r.body[1].short_code = r.alias[1]

\* C9: a create whose alias has a character that is no letter, digit, "-"
\* or "_", or fewer than 3 or more than 20 characters, is answered 400 in
\* its entry step, before any commit.
C9_InvalidAliasRejected ==
    \A p \in Procs :
        LET r == reqs[p]
        IN  r.op = "create" /\ r.alias # None /\ ~SpecValid(r.alias[1]) =>
                r.status = 400 /\ r.pc = "done" /\ r.commits = 0

\* C10: a redirect whose resolution the url service answered 200 ends
\* with 307 and the resolved target as its location, whatever the call of
\* the tracking endpoint did.
C10_RedirectSurvivesTracking ==
    \A p \in Procs :
        LET r == reqs[p]
        IN  r.op = "redirect" /\ r.status = 200 /\ r.pc = "done" =>
                /\ r.track \in TrackOutcomes
                /\ r.gw_status = 307
                /\ r.location = Some(r.body[1].original_url)

\* A redirect that ended with 307 although the tracking call timed out.
C10_Witness ==
    \E p \in Procs :
        /\ reqs[p].op = "redirect" /\ reqs[p].pc = "done"
        /\ reqs[p].track = "timeout"
        /\ reqs[p].gw_status = 307
        /\ reqs[p].location = Some("https://example.com/a")

\* C11: while the tracking call of a redirect is under way (sent, and
\* neither answered, failed nor timed out), the redirect's 307 has been
\* sent to the client.
C11_ResponseNotBlocked ==
    \A p \in Procs :
        reqs[p].op = "redirect" /\ reqs[p].pc = "gw_wait" =>
            reqs[p].gw_status = 307

\* C12: a redirect sends at most one tracking request, and only with the
\* target the url service answered (200) in hand; a redirect that ends
\* with 404, 410, 500 or 503 has sent none, and no tracking request of the
\* gateway's is with the analytics service on its behalf.
C12_ReadThenNotify ==
    \A p \in Procs :
        LET r == reqs[p]
        IN  r.op = "redirect" =>
                /\ r.emitted <= 1
                /\ r.emitted = 1 =>
                       /\ r.status = 200 /\ r.body # None
                       /\ r.location = Some(r.body[1].original_url)
                       /\ r.pc \in {"gw_wait", "done"}
                /\ r.gw_status \in {404, 410, 500, 503} =>
                       r.emitted = 0 /\ tracks[p].via # "gateway"
                /\ tracks[p].via = "gateway" =>
                       r.emitted = 1 /\ tracks[p].short_code = r.short_code

\* A redirect of a deactivated code that ended with 410 after a miss, and
\* sent no tracking request.
C12_Witness ==
    \E p \in Procs :
        /\ reqs[p].op = "redirect" /\ reqs[p].pc = "done"
        /\ reqs[p].gw_status = 410 /\ reqs[p].url_data # None
        /\ reqs[p].emitted = 0 /\ analytics = <<>>

\* C13: with Redis unreachable, no step of the url service fails.  The
\* cache lookup of a resolve goes on to the store, where the row decides
\* as on a miss (404 without a row, 410 for an inactive row, else 200 with
\* the row's target, from the database); the cache write of a create is
\* followed by the 201 for the row it inserted; the cache delete of a
\* delete is followed by the 200, with the row deactivated.
C13_CacheBestEffort ==
    [][\A p \in Procs :
        LET r == reqs[p]
            r2 == reqs'[p]
            row == SelectByCode(urls, r.short_code)
        IN
        ~redis_up /\ r2 # r /\ r.op # "idle" /\ r.pc # "done" =>
            /\ ~r2.raised /\ r2.status \notin {500, 503}
            /\ r.pc = "cache_get" => r2.pc = "select" /\ ~Answered(r2)
            /\ r.pc = "select" =>
                   /\ row = None => r2.status = 404
                   /\ row # None /\ ~row[1].is_active => r2.status = 410
                   /\ r2.status \notin {404, 410} =>
                          r2.pc = "cache_set" /\ r2.url_data = row
            /\ r.pc = "cache_set" =>
                   /\ r2.status = 200
                   /\ r2.body = Some([original_url |-> row[1].original_url,
                                      source |-> "database"])
            /\ r.pc = "cache" =>
                   /\ r2.status = 201
                   /\ row # None /\ row[1].is_active
                   /\ r2.body[1].short_code = r.short_code
                   /\ row[1].original_url = r.original_url
            /\ r.pc = "cache_del" =>
                   r2.status = 200 /\ ~row[1].is_active]_vars

\* A delete that answered 200 while Redis was unreachable: the row is
\* deactivated, and the cache entry of the code is still there.
C13_Witness ==
    \E p \in Procs :
        /\ reqs[p].op = "delete" /\ reqs[p].status = 200
        /\ ~redis_up
        /\ ~RowOf(reqs[p].short_code).is_active
        /\ reqs[p].short_code \in DOMAIN cache

\* C14: a redirect whose resolution missed the cache and found PostgreSQL
\* unreachable at the read of the row ends with 503.
C14_StoreDown503 ==
    \A p \in Procs :
        LET r == reqs[p]
        IN  /\ r.op = "redirect" /\ r.pc = "done"
            /\ r.raised /\ r.cached_url = None
            => r.gw_status = 503

\* C15: a delete with a user_id parameter, 0 included, goes on to
\* deactivate the link only when the row of the code is owned by that
\* user_id, and then answers 200 with the row deactivated; without a row,
\* or with a row owned by someone else or by nobody, it is answered 404 at
\* once, before any write to the store or the cache.
C15_OwnerOnlyDelete ==
    \A p \in Procs :
        LET r == reqs[p]
            row == SelectByCode(urls, r.short_code)
        IN  r.op = "delete" /\ r.user_id # None =>
                IF row # None /\ row[1].user_id = r.user_id
                THEN Answered(r) => r.status = 200 /\ ~row[1].is_active
                ELSE r.pc = "done" /\ r.status = 404 /\ r.url_data = None

\* C16: no step of a create, resolve, redirect, delete, record or purge
\* removes a row of the store or changes its id, short code, target, owner,
\* origin flag or expiry; the only change to a row is the commit of a
\* delete of its code, which sets the active flag to false.
C16_RowsImmutable ==
    [][/\ Len(urls') >= Len(urls)
       /\ \A i \in 1..Len(urls) :
              /\ urls'[i] = [urls[i] EXCEPT !.is_active = urls'[i].is_active]
              /\ urls'[i] # urls[i] =>
                     /\ ~urls'[i].is_active
                     /\ \E p \in Procs :
                            /\ reqs[p].op = "delete" /\ reqs[p].pc = "commit"
                            /\ reqs[p].short_code = urls[i].short_code]_vars

\* A link the service created has been deactivated by a delete, clicks
\* have been recorded, and a purge has answered 200.
C16_Witness ==
    /\ Len(urls) = 3 /\ ~urls[3].is_active
    /\ urls[3].original_url = "https://example.com/a"
    /\ urls[3].short_code = Mixed
    /\ click_seq >= 1
    /\ \E p \in Procs : tracks[p].op = "purge" /\ tracks[p].status = 200

C18_IndependentBothWays ==
    \A p \in Procs :
        LET t == tracks[p]
        IN  t.op = "track" /\ t.write_failed /\ t.pc = "done" =>
                t.incr_failed \/ t.incrs > 0

\* C18 (amended): the counter increment follows the durable append and
\* depends on it.  A POST /track does an INCR only after its click row was
\* committed; one whose commit failed is answered 500 with no INCR done.
\* The other direction is open: a POST /track may end, answered 201, with
\* its row committed and fewer than its three INCRs done.
C18_CountAfterWrite ==
    \A p \in Procs :
        LET t == tracks[p]
        IN  t.op = "track" =>
                /\ t.incrs \in 0..3
                /\ t.incrs > 0 \/ t.incr_failed =>
                       t.inserted = 1 /\ ~t.write_failed
                /\ t.write_failed =>
                       /\ t.inserted = 0 /\ t.incrs = 0
                       /\ t.pc = "done" /\ t.status = 500
                /\ t.status = 201 =>
                       t.inserted = 1 /\ (t.incrs = 3 \/ t.incr_failed)

\* A POST /track was answered 201 with its click row in the table and no
\* counter incremented: Redis was unreachable.
C18_Witness ==
    \E p \in Procs :
        /\ tracks[p].op = "track" /\ tracks[p].status = 201
        /\ tracks[p].inserted = 1 /\ tracks[p].incrs = 0
        /\ Len(analytics) = 1 /\ counters = <<>>

\* C19 (as stated): a redirect sends its tracking call at most once, and
\* the call appends at most one click row.  A redirect that answered 307
\* after the analytics service answered the call within the timeout has
\* had exactly one click row appended; one that could not reach the
\* analytics service has had none.
C19_OneClickPerRedirect ==
    \A p \in Procs :
        LET r == reqs[p]
            t == tracks[p]
        IN  r.op = "redirect" =>
                /\ r.emitted <= 1
                /\ t.via = "gateway" => r.emitted = 1 /\ t.inserted <= 1
                /\ r.gw_status = 307 =>
                       /\ r.track \in TrackOutcomes /\ r.emitted = 1
                       /\ r.track \in {"201", "404", "500"} =>
                              /\ t.via = "gateway" /\ t.pc = "done"
                              /\ t.inserted = 1
                       /\ r.track = "unreachable" => t.via # "gateway"

\* C19 (amended): a redirect sends its tracking call at most once, and
\* the call appends at most one click row.  A redirect that answered 307
\* after the analytics service answered the call with 201 within the
\* timeout has had exactly one click row appended; one that could not
\* reach the analytics service has had none.
C19_OneClickWhenRecorded ==
    \A p \in Procs :
        LET r == reqs[p]
            t == tracks[p]
        IN  r.op = "redirect" =>
                /\ r.emitted <= 1
                /\ t.via = "gateway" => r.emitted = 1 /\ t.inserted <= 1
                /\ r.gw_status = 307 =>
                       /\ r.track \in TrackOutcomes /\ r.emitted = 1
                       /\ r.track \in {"201", "404", "500"} =>
                              t.via = "gateway" /\ t.pc = "done"
                       /\ r.track = "201" => t.inserted = 1
                       /\ r.track = "unreachable" => t.via # "gateway"

\* A redirect answered 307 once the analytics service had answered 201,
\* and the one click row of the table refers to the redirected link.
C19_Witness ==
    \E p \in Procs :
        /\ reqs[p].op = "redirect" /\ reqs[p].gw_status = 307
        /\ reqs[p].track = "201" /\ reqs[p].short_code = old.short_code
        /\ tracks[p].inserted = 1
        /\ Len(analytics) = 1
        /\ analytics[1].url_id = old.id

\* C20: every click row refers, by url_id, to the id of a row of the
\* store; no step changes a click row; and a click row leaves the table
\* only at the commit of a purge (DELETE /analytics/{short_code}) of the
\* link it refers to, which leaves the click rows of every other link in
\* place.
C20_ClicksAppendOnly ==
    /\ [](\A i \in 1..Len(analytics) :
            /\ \E j \in 1..Len(urls) : urls[j].id = analytics[i].url_id
            /\ \A k \in 1..Len(analytics) :
                   analytics[k].id = analytics[i].id => k = i)
    /\ [][\A i \in 1..Len(analytics) :
            LET a == analytics[i]
                kept == \E k \in 1..Len(analytics') : analytics'[k] = a
            IN  /\ \A k \in 1..Len(analytics') :
                       analytics'[k].id = a.id => analytics'[k] = a
                /\ ~kept =>
                       \E p \in Procs :
                           /\ tracks[p].op = "purge" /\ tracks[p].pc = "commit"
                           /\ tracks'[p].pc = "cache_del"
                           /\ tracks[p].url_data[1].id = a.url_id
                           /\ RowOf(tracks[p].short_code).id = a.url_id]_vars

\* A purge of one link has answered 200 and removed that link's click row,
\* while the click row of another link, recorded before the purge ran, is
\* still in the table.
C20_Witness ==
    \E p \in Procs :
        /\ tracks[p].op = "purge" /\ tracks[p].status = 200
        /\ tracks[p].short_code = gone.short_code
        /\ click_seq = 2 /\ Len(analytics) = 1
        /\ analytics[1].id = 1
        /\ analytics[1].url_id # gone.id

ValidToken(credentials, t) ==
    /\ credentials # None
    /\ credentials[1].key = JWT_SECRET_KEY
    /\ credentials[1].exp = None \/ credentials[1].exp[1] >= t
    /\ credentials[1].user_id # None

\* C22: a request to the gateway's shorten or delete gets an identity from
\* verify_token exactly when its token has a valid signature, is not
\* expired and carries a user_id, and the identity is that user_id; the
\* step that verifies changes neither the store nor the cache.  Without an
\* identity a shorten goes on to the url service with no user_id, is never
\* answered 401, and, the alias being free, is answered 201 for a row owned
\* by nobody; a delete is answered 401 at once and nothing of it arrives at
\* the url service.
C22_IdentityGates ==
    /\ [][\A p \in Procs :
            LET r2 == reqs'[p]
            IN  reqs[p].op = "idle" /\ r2.via = "gateway" =>
                    /\ r2.user_data # None <=> ValidToken(r2.credentials, now)
                    /\ r2.user_data # None =>
                           r2.user_data[1].user_id
                               = r2.credentials[1].user_id[1]
                    /\ urls' = urls /\ cache' = cache]_vars
    /\ [](\A p \in Procs :
            LET r == reqs[p]
            IN  r.via = "gateway" /\ r.user_data = None =>
                    /\ r.op = "create" =>
                           /\ r.user_id = None
                           /\ r.gw_status \in {0, 201, 409, 503}
                           /\ r.free /\ Answered(r) => r.status = 201
                           /\ r.status = 201 =>
                                  /\ RowOf(r.short_code).user_id = None
                                  /\ RowOf(r.short_code).id = r.body[1].id
                           /\ r.status = 201 /\ r.pc = "done" =>
                                  r.gw_status = 201
                    /\ r.op = "delete" =>
                           /\ r.gw_status = 401 /\ r.pc = "done"
                           /\ r.status = 0 /\ r.url_data = None
                           /\ r.user_id = None)

\* A shorten through the gateway with a token of user 7 that had expired
\* was answered 201, and the link it created has no owner.
C22_Witness ==
    \E p \in Procs :
        /\ reqs[p].op = "create" /\ reqs[p].via = "gateway"
        /\ reqs[p].credentials = Some(Token(JWT_SECRET_KEY, Some(0), Some(7)))
        /\ reqs[p].user_data = None
        /\ reqs[p].gw_status = 201
        /\ RowOf(Mixed).user_id = None

\* C23: a population of the cache for code c (the cache write of a create
\* or of a resolve that missed) leaves the entry of c holding the target of
\* the row of c, and every other entry as it was; a population that finds
\* an entry of c already there, written by an earlier or a racing request,
\* leaves its value unchanged (Redis being reachable at the write).  Every
\* resolve answered 200, from the cache or from the database, returns that
\* target.
C23_IdempotentPopulation ==
    /\ [][\A p \in Procs :
            LET r == reqs[p]
                c == r.short_code
            IN  r.pc \in {"cache", "cache_set"} /\ reqs'[p].pc # r.pc
                /\ redis_up =>
                    /\ DOMAIN cache' = DOMAIN cache \cup {c}
                    /\ cache'[c].val = RowOf(c).original_url
                    /\ c \in DOMAIN cache => cache'[c].val = cache[c].val
                    /\ \A k \in DOMAIN cache \ {c} : cache'[k] = cache[k]]_vars
    /\ [](\A p \in Procs :
            reqs[p].op \in {"resolve", "redirect"} /\ reqs[p].status = 200 =>
                reqs[p].body[1].original_url
                    = RowOf(reqs[p].short_code).original_url)

\* Two requests for one code raced on the same miss: both read the row and
\* both populated the cache, and the entry of the code holds the target
\* both returned.
C23_Witness ==
    /\ \A p \in Procs :
           /\ reqs[p].op \in {"resolve", "redirect"}
           /\ reqs[p].short_code = old.short_code
           /\ reqs[p].status = 200 /\ reqs[p].body[1].source = "database"
           /\ reqs[p].checked_at = Some(0)
    /\ redis_up /\ now = 0
    /\ old.short_code \in DOMAIN cache
    /\ cache[old.short_code].val = old.original_url

\* C24: of two create requests with the same custom alias that both
\* arrived while no row held the alias, in every interleaving at most one
\* inserts a row; once both are answered, one has 201 and the other 409
\* (AliasTaken), the store holds one row with the alias, the row of the one
\* answered 201, and the cache entry of the alias holds that one's target.
C24_OneCreateWins ==
    \A p, q \in Procs :
        LET r == reqs[p]
            s == reqs[q]
            c == r.short_code
        IN  /\ p # q
            /\ r.op = "create" /\ r.custom /\ r.free
            /\ s.op = "create" /\ s.custom /\ s.free
            /\ s.short_code = c
            => /\ ~(r.new_url # None /\ s.new_url # None)
               /\ ~(r.status = 201 /\ s.status = 201)
               /\ Answered(r) /\ Answered(s) =>
                      /\ {r.status, s.status} = {201, 409}
                      /\ Len(SelectSeq(urls, LAMBDA u : u.short_code = c)) = 1
                      /\ r.status = 201 =>
                             /\ RowOf(c).original_url = r.original_url
                             /\ RowOf(c).id = r.body[1].id
                             /\ c \in DOMAIN cache
                             /\ cache[c].val = r.original_url

\* Two creates of the alias docs with different targets raced: the one
\* with target b was answered 201 and the one with target a 409, and the
\* cache entry of docs holds b.
C24_Witness ==
    \E p, q \in Procs :
        /\ reqs[p].op = "create" /\ reqs[q].op = "create"
        /\ reqs[p].free /\ reqs[q].free
        /\ reqs[p].short_code = Docs /\ reqs[q].short_code = Docs
        /\ reqs[p].original_url = "https://example.com/b"
        /\ reqs[q].original_url = "https://example.com/a"
        /\ reqs[p].status = 201 /\ reqs[q].status = 409
        /\ cache[Docs].val = "https://example.com/b"

\* C25 (as stated): a resolve of a code that arrives after a delete of the
\* code has answered 200, Redis being reachable throughout, is answered
\* 410, also when a create or a resolve of the code was in flight while
\* the delete ran.
C25_GoneAfterDeleteInFlight ==
    \A p \in Procs :
        /\ reqs[p].op = "resolve"
        /\ reqs[p].after_delete
        /\ Answered(reqs[p])
        => reqs[p].status = 410

\* C25 (amended): the delete's invalidation leaves no entry of the code in
\* the cache, and a resolve that arrives after the delete has answered 200
\* is answered 410, unless it finds an entry of the code in the cache: it
\* is never answered from the database and never 404.  Such an entry was
\* written after the invalidation by a request that was in flight when the
\* delete ran: a resolve that had read the row while it was active, or the
\* create that had inserted the row.  (Redis is reachable throughout.)
C25_GoneUnlessRepopulated ==
    /\ [](\A p \in Procs :
            LET r == reqs[p]
            IN  r.op = "resolve" /\ r.after_delete /\ Answered(r) =>
                    \/ r.status = 410
                    \/ /\ r.status = 200 /\ r.body[1].source = "cache"
                       /\ r.url_data = None
                       /\ ~RowOf(r.short_code).is_active)
    /\ [][\A p \in Procs :
            reqs[p].pc = "cache_del" /\ reqs'[p].pc # "cache_del" =>
                reqs[p].short_code \notin DOMAIN cache']_vars
    /\ [][\A c \in deleted :
            c \in DOMAIN cache' /\ (c \in DOMAIN cache => cache'[c] # cache[c])
            => \E p \in Procs :
                   LET r == reqs[p]
                   IN  /\ r.short_code = c /\ reqs'[p].pc # r.pc
                       /\ \/ /\ r.op = "resolve" /\ r.pc = "cache_set"
                             /\ ~r.after_delete /\ r.url_data[1].is_active
                          \/ /\ r.op = "create" /\ r.pc = "cache"
                             /\ r.new_url # None]_vars

\* A resolve that arrived after the delete had answered 200 missed the
\* cache and was answered 410, while a resolve that had read the row
\* before the delete ran is about to write the cache entry.
C25_Witness ==
    \E p, q \in Procs :
        /\ reqs[p].op = "resolve" /\ reqs[p].after_delete
        /\ reqs[p].status = 410 /\ reqs[p].cached_url = None
        /\ reqs[q].op = "resolve" /\ reqs[q].pc = "cache_set"
        /\ reqs[q].short_code = reqs[p].short_code
        /\ ~reqs[q].after_delete
        /\ reqs[q].short_code \notin DOMAIN cache

\* C26: in every reachable state each cache entry belongs to a code that
\* has a row in the store, exactly one, and holds the target of that row;
\* and a step that writes an entry writes the target of the row of its
\* code.
C26_CacheMirrorsStore ==
    /\ [](\A c \in DOMAIN cache :
            /\ Len(SelectSeq(urls, LAMBDA u : u.short_code = c)) = 1
            /\ cache[c].val = RowOf(c).original_url)
    /\ [][\A c \in DOMAIN cache' :
            c \notin DOMAIN cache \/ cache'[c] # cache[c] =>
                /\ SelectByCode(urls, c) # None
                /\ cache'[c].val = RowOf(c).original_url
                /\ cache'[c].exp = now + ttl]_vars

\* The cache holds the entry of a link that has been deactivated, written
\* by a racing request after the delete's invalidation, and it still holds
\* the target of the link's row.
C26_Witness ==
    \E c \in DOMAIN cache :
        /\ c \in deleted
        /\ ~RowOf(c).is_active
        /\ cache[c].val = RowOf(c).original_url
        /\ Len(urls) = 2

\* The store holds a row of the code c whose is_active is False.
Deactivated(c) ==
    SelectByCode(urls, c) # None /\ ~SelectByCode(urls, c)[1].is_active

\* C27: once the link of a code is deactivated, and given that every
\* request in flight completes and that time passes so that entries reach
\* the end of their time-to-live, there is a point after which the cache
\* holds no entry for the code and every resolve of the code that has an
\* answer has 410 Gone, for ever.
C27_BoundedStaleness ==
    [](Deactivated(Mixed) =>
           <>[](/\ Mixed \notin DOMAIN cache
                /\ \A p \in Procs :
                       /\ reqs[p].op = "resolve"
                       /\ reqs[p].short_code = Mixed
                       /\ Answered(reqs[p])
                       => reqs[p].status = 410))

\* The stale case: the link is deactivated, its entry has been in the
\* cache for TickSeconds since a racing request wrote it after the
\* invalidation, and a resolve that began after the delete has been
\* answered 200 from it.
C27_Witness ==
    /\ Deactivated(Mixed)
    /\ Mixed \in DOMAIN cache /\ cache[Mixed].exp = now + ttl - TickSeconds
    /\ \E p \in Procs :
           /\ reqs[p].op = "resolve" /\ reqs[p].after_delete
           /\ reqs[p].status = 200
           /\ reqs[p].body[1].source = "cache"

\* C28: a code is not used again after its link is deactivated.  A create
\* that commits on a code whose row is inactive inserts nothing (a custom
\* alias is answered 409, a generated code is drawn again or ends in 500),
\* no create of such a code is answered 201, and the store never holds two
\* rows of one code.
C28_NoReuseAfterDeactivation ==
    /\ [][\A p \in Procs :
            LET r == reqs[p]
                r2 == reqs'[p]
            IN  /\ r.op = "create" /\ r.pc = "commit" /\ r2 # r
                /\ Deactivated(r.short_code)
                => /\ urls' = urls
                   /\ r.custom => Answered(r2) /\ r2.status = 409
                   /\ r2.status # 201]_vars
    /\ [](\A i, j \in 1..Len(urls) :
            urls[i].short_code = urls[j].short_code => i = j)
    /\ [](\A p \in Procs :
            /\ reqs[p].op = "create" /\ reqs[p].status = 201
            => \/ ~Deactivated(reqs[p].short_code)
               \/ reqs[p].new_url[1].id = RowOf(reqs[p].short_code).id)

\* The request that created the link still holds its slot with its 201,
\* so the delete that deactivated the link and the create after it both
\* ran in the other slot, one after the other: that create, with the
\* link's code as its custom alias, has been answered 409.
C28_Witness ==
    \E p \in Procs, q \in Procs :
        /\ q # p
        /\ reqs[q].op = "create" /\ reqs[q].status = 201
        /\ reqs[q].short_code = reqs[p].short_code
        /\ reqs[q].new_url[1].id = RowOf(reqs[p].short_code).id
        /\ reqs[p].op = "create" /\ reqs[p].custom
        /\ reqs[p].status = 409
        /\ Deactivated(reqs[p].short_code)
        /\ Len(urls) = 1

\* C29: the active flag only ever goes from true to false.  No step
\* changes or removes a row that is inactive; the commit of a delete whose
\* row is already inactive leaves the store as it is; and a delete that
\* found its row inactive is answered 200 like the first one.
C29_ActiveFlagMonotonic ==
    /\ [][\A i \in 1..Len(urls) :
            ~urls[i].is_active => i <= Len(urls') /\ urls'[i] = urls[i]]_vars
    /\ [][\A p \in Procs :
            LET r == reqs[p]
            IN  /\ r.op = "delete" /\ r.pc = "commit" /\ reqs'[p] # r
                /\ ~RowOf(r.short_code).is_active
                => urls' = urls /\ reqs'[p].pc = "cache_del"]_vars
    /\ [](\A p \in Procs :
            LET r == reqs[p]
            IN  /\ r.op = "delete" /\ Answered(r)
                /\ r.url_data # None /\ ~r.url_data[1].is_active
                => r.status = 200 /\ ~RowOf(r.short_code).is_active)

\* A delete that read its row when the row was already inactive has been
\* answered 200, and the row is inactive.
C29_Witness ==
    \E p \in Procs :
        /\ reqs[p].op = "delete" /\ reqs[p].status = 200
        /\ reqs[p].url_data # None /\ ~reqs[p].url_data[1].is_active
        /\ ~RowOf(reqs[p].short_code).is_active

\* C30: every code a create has returned can be redirected.  A redirect
\* at the gateway for a code whose link is in the store, active and
\* unexpired, with every service reachable, is answered 307 with the
\* link's target.
C30_CreatedCodeRedirects ==
    \A p \in Procs :
        LET r == reqs[p]
            row == SelectByCode(urls, r.short_code)
        IN  /\ r.op = "redirect" /\ r.pc = "done"
            /\ row # None /\ row[1].is_active
            /\ row[1].expires_at = None \/ row[1].expires_at[1] >= now
            /\ redis_up /\ db_up
            => /\ r.gw_status = 307
               /\ r.location = Some(row[1].original_url)

\* C31: a create that fails leaves the store and the cache as they are.
\* Every step of a create that has inserted no row (the validation with
\* its 400, a commit that collides, the 409 and the 500 after
\* max_attempts) changes neither urls nor cache; and a create answered
\* 400, 409 or 500 has inserted no row: each of its commits collided.
C31_FailedCreateNoEffect ==
    /\ [][\A p \in Procs :
            LET r == reqs[p]
                r2 == reqs'[p]
            IN  r2 # r /\ r2.op = "create" /\ r2.new_url = None
                => urls' = urls /\ cache' = cache]_vars
    /\ [](\A p \in Procs :
            LET r == reqs[p]
            IN  r.op = "create" /\ r.status \in {400, 409, 500}
                => /\ r.new_url = None
                   /\ r.commits = r.collisions
                   /\ r.status = 400 => r.commits = 0
                   /\ r.status = 409 => r.commits = 1
                   /\ r.status = 500 => r.commits = max_attempts)

\* A create without alias has been answered 500 after max_attempts
\* collisions while the row and the cache entry of the code it drew are
\* the ones an earlier create left.
C31_Witness ==
    \E p \in Procs :
        /\ reqs[p].op = "create" /\ reqs[p].status = 500
        /\ reqs[p].collisions = max_attempts
        /\ Len(urls) = 1 /\ urls[1].short_code = reqs[p].short_code
        /\ reqs[p].short_code \in DOMAIN cache
        /\ cache[reqs[p].short_code].val = urls[1].original_url

\* C32: every request ends with a response.  A create makes at most
\* max_attempts commits, a request that is over carries a status, and
\* every create and every redirect of the gateway that has begun is over
\* in the end, whether or not the analytics service ever answers the
\* tracking call.
C32_RequestsTerminate ==
    /\ [](\A p \in Procs :
            LET r == reqs[p]
            IN  /\ r.op = "create" =>
                    r.commits <= max_attempts /\ r.attempts <= max_attempts
                /\ r.op = "create" /\ r.pc = "done" =>
                    r.status \in {201, 400, 409, 500}
                /\ r.op = "redirect" /\ r.pc = "done" =>
                    r.gw_status \in {307, 404, 410, 500, 503})
    /\ \A p \in Procs :
           reqs[p].op \in {"create", "redirect"} ~> reqs[p].pc = "done"

\* A redirect has its 307 after the tracking call timed out, and the
\* analytics service still has not answered that call.
C32_Witness ==
    \E p \in Procs :
        /\ reqs[p].op = "redirect" /\ reqs[p].pc = "done"
        /\ reqs[p].gw_status = 307 /\ reqs[p].track = "timeout"
        /\ tracks[p].via = "gateway" /\ tracks[p].pc # "done"

\* The integer under a counter key, 0 for a key that is not there.
Counter(key) == IF key \in DOMAIN counters THEN counters[key] ELSE 0

\* The sum of clicks:<code> over the codes in S.
RECURSIVE SumClicks(_)
SumClicks(S) ==
    IF S = {} THEN 0
    ELSE LET c == CHOOSE x \in S : TRUE
         IN  Counter(ClicksKey(c)) + SumClicks(S \ {c})

\* The codes of the links in the store.
StoredCodes == {urls[i].short_code : i \in 1..Len(urls)}

\* C33: when no request of the analytics service is in progress (and
\* Redis has never failed), clicks:total is at least the sum of the
\* counters clicks:<code> over all codes, equal to it when no purge has
\* happened, and each clicks:<code> is at most the number of click rows
\* stored for the code.
C33_CounterConsistency ==
    (\A p \in Procs : tracks[p].op = "idle" \/ tracks[p].pc = "done")
    => /\ Counter(TotalKey) >= SumClicks(StoredCodes)
       /\ (\A p \in Procs : tracks[p].op # "purge")
              => Counter(TotalKey) = SumClicks(StoredCodes)
       /\ \A c \in StoredCodes :
              Counter(ClicksKey(c))
                  <= Cardinality(ClicksOf(analytics, RowOf(c).id))

\* C34: a link created without an owner can be deactivated through the
\* gateway.  When the store holds a link without owner and every user
\* keeps sending DELETE /api/urls/<code> with a token of the auth service,
\* the link is inactive in the end.
C34_UnownedCanBeDeactivated ==
    (SelectByCode(urls, Mixed) # None /\ RowOf(Mixed).user_id = None)
        ~> Deactivated(Mixed)

=============================================================================
